---- MODULE Spec2Model ----
(***************************************************************************)
(* Strategy analysis of strategy-hunter:                                   *)
(*   backend/app/services/strategy_service.py  analyze_strategy_performance*)
(*   backend/app/routers/strategies.py         analyze_strategy_endpoint   *)
(*                                                                         *)
(* Numbers.  Python floats are modelled by exact integers:                 *)
(*   - money (bid, ask, strike, underlying price) is counted in half-cents *)
(*     (200 units = 1 dollar), quotes are whole cents, so (bid + ask) / 2  *)
(*     is exact;                                                           *)
(*   - np.linspace(u * 0.75, u * 1.25, 200) has the points                 *)
(*     u * (597 + 2 i) / 796, i = 0..199; the payoff curve therefore keeps *)
(*     price_at_expiration and profit_loss as numerators over GridDen =    *)
(*     4 * 199 = 796;                                                      *)
(*   - Greeks are counted in hundredths.                                   *)
(* Binary rounding of floats is not modelled.                              *)
(***************************************************************************)
EXTENDS Integers, Sequences, FiniteSets, TLC

\* ------------------------------------------------------------------------
\* Bounds of the model
\* ------------------------------------------------------------------------
MaxQty == 2

\* ------------------------------------------------------------------------
\* Python values
\* ------------------------------------------------------------------------
\* An optional value (a missing dict key / None) is <<>>, a present one <<v>>.
Absent == <<>>

Some(v) == <<v>>

Digits == {"0", "1", "2", "3", "4", "5", "6", "7", "8", "9"}

Min(a, b) == IF a <= b THEN a ELSE b

Max(a, b) == IF a >= b THEN a ELSE b

\* str.split(sep) for a one-character separator: the list of the pieces.
RECURSIVE Split(_, _)
Split(s, sep) ==
    IF \A i \in 1..Len(s) : s[i] # sep
    THEN <<s>>
    ELSE LET k == CHOOSE i \in 1..Len(s) :
                      s[i] = sep /\ \A j \in 1..(i - 1) : s[j] # sep
         IN  <<SubSeq(s, 1, k - 1)>> \o Split(SubSeq(s, k + 1, Len(s)), sep)

\* s[:n]
Prefix(s, n) == SubSeq(s, 1, Min(n, Len(s)))

\* s.rstrip("0123456789")
RECURSIVE RStripDigits(_)
RStripDigits(s) ==
    IF Len(s) > 0 /\ s[Len(s)] \in Digits
    THEN RStripDigits(SubSeq(s, 1, Len(s) - 1))
    ELSE s

\* str.upper() on the action strings that occur
Upper(a) ==
    CASE a = "buy" -> "BUY"
      [] a = "sell" -> "SELL"
      [] OTHER -> a

\* dict.get(key): the value when the key is present
Get(d, key) == IF key \in DOMAIN d THEN Some(d[key]) ELSE Absent

\* round(n / m) to the nearest integer, ties to the even one (m > 0)
RoundHalfEven(n, m) ==
    LET q == n \div m
        r == n % m
    IN  IF 2 * r < m THEN q
        ELSE IF 2 * r > m THEN q + 1
        ELSE IF q % 2 = 0 THEN q ELSE q + 1

\* ------------------------------------------------------------------------
\* Program constants
\* ------------------------------------------------------------------------
\* np.linspace(..., 200)
NumPoints == 200

\* "* 100  # 1 contract = 100 shares"
ContractSize == 100

\* the slice [:6] that cuts the root symbol out of an option identifier
RootLen == 6

\* half-cents in one cent: round(breakeven, 2) rounds to whole cents
UnitsPerCent == 2

\* denominator of the sampled prices: u * 0.75 = 3u / 4, then 199 steps
GridDen == 4 * (NumPoints - 1)

GreekNames == <<"delta", "gamma", "theta", "vega">>

\* ------------------------------------------------------------------------
\* Payoff curve, maximum, minimum and breakeven points
\* (strategy_service.py, steps 3 and 4)
\* ------------------------------------------------------------------------
\* np.linspace(start, stop, num) for start = start4 / 4 and stop = stop4 / 4:
\* the i-th point, as a numerator over 4 * (num - 1)
linspace(start4, stop4, num) ==
    [i \in 1..num |-> start4 * (num - 1) + (i - 1) * (stop4 - start4)]

\* Mutant of price_range: one sample short
price_range_short(underlying_price) ==
    linspace(underlying_price * 3, underlying_price * 5, NumPoints - 1)

price_range(underlying_price) ==
    linspace(underlying_price * 3, underlying_price * 5, NumPoints)

\* Mutant of intrinsic_value: the two contract types exchanged
intrinsic_value_swapped(leg_info, price_at_expiration) ==
    IF leg_info.type = "call"
    THEN Max(0, leg_info.strike * GridDen - price_at_expiration)
    ELSE Max(0, price_at_expiration - leg_info.strike * GridDen)

\* max(0, price - strike) for a call, max(0, strike - price) otherwise
intrinsic_value(leg_info, price_at_expiration) ==
    IF leg_info.type = "call"
    THEN Max(0, price_at_expiration - leg_info.strike * GridDen)
    ELSE Max(0, leg_info.strike * GridDen - price_at_expiration)

RECURSIVE total_profit_loss(_, _, _)
total_profit_loss(processed_legs, price_at_expiration, n) ==
    IF n = 0 THEN 0
    ELSE LET leg_info == processed_legs[n]
             pl_per_share == intrinsic_value(leg_info, price_at_expiration)
                             - leg_info.cost_per_share * GridDen
         IN  total_profit_loss(processed_legs, price_at_expiration, n - 1)
             + pl_per_share * leg_info.quantity * ContractSize

pl_chart(processed_legs, underlying_price) ==
    LET prices == price_range(underlying_price)
    IN  [i \in DOMAIN prices |->
            [price_at_expiration |-> prices[i],
             profit_loss |-> total_profit_loss(processed_legs, prices[i],
                                               Len(processed_legs))]]

\* max(list) and min(list), by halving the list
RECURSIVE MaxBetween(_, _, _)
MaxBetween(s, lo, hi) ==
    IF lo = hi THEN s[lo]
    ELSE LET mid == (lo + hi) \div 2
             left == MaxBetween(s, lo, mid)
             right == MaxBetween(s, mid + 1, hi)
         IN  IF left >= right THEN left ELSE right

RECURSIVE MinBetween(_, _, _)
MinBetween(s, lo, hi) ==
    IF lo = hi THEN s[lo]
    ELSE LET mid == (lo + hi) \div 2
             left == MinBetween(s, lo, mid)
             right == MinBetween(s, mid + 1, hi)
         IN  IF left <= right THEN left ELSE right

SeqMax(s) == MaxBetween(s, 1, Len(s))

SeqMin(s) == MinBetween(s, 1, Len(s))

\* Mutant of SignChange: a product of zero counts as a change of sign
SignChange_or_zero(a, b) == (a <= 0 /\ b > 0) \/ (a > 0 /\ b <= 0)

\* p1["profit_loss"] * p2["profit_loss"] < 0.  The product of two numbers is
\* negative exactly when one is negative and the other positive; the product
\* itself is not formed, it leaves the integer range of the model checker.
SignChange(a, b) == (a < 0 /\ b > 0) \/ (a > 0 /\ b < 0)

\* round(p1.x - p1.y * (p2.x - p1.x) / (p2.y - p1.y), 2), in cents; the prices
\* of the curve are counted in units of which `per_cent` make one cent.
breakeven(p1, p2, per_cent) ==
    LET d == p2.profit_loss - p1.profit_loss
        n == p1.price_at_expiration * d
             - p1.profit_loss * (p2.price_at_expiration - p1.price_at_expiration)
    IN  IF d > 0 THEN RoundHalfEven(n, d * per_cent)
        ELSE RoundHalfEven(-n, (-d) * per_cent)

\* The loop over the pairs of consecutive points: the pairs whose profit_loss
\* changes sign, in ascending order, each with its interpolated breakeven.
breakeven_points(curve, per_cent) ==
    LET crossings == {i \in 2..Len(curve) :
                         SignChange(curve[i - 1].profit_loss, curve[i].profit_loss)}
        nth(k) == CHOOSE i \in crossings : Cardinality({j \in crossings : j < i}) = k - 1
    IN  [k \in 1..Cardinality(crossings) |->
            breakeven(curve[nth(k) - 1], curve[nth(k)], per_cent)]

\* ------------------------------------------------------------------------
\* Leg resolution and Greeks aggregation (strategy_service.py, steps 1 and 2)
\* ------------------------------------------------------------------------
\* An error result: the message is kept as its kind and the identifiers that
\* the f-string interpolates into it.
ErrorResult(kind, names, status_code) ==
    [error |-> [kind |-> kind, names |-> names], status_code |-> status_code]

\* Mutant of legs_missing: the check for an empty list left out
legs_missing_never(strategy_legs) == FALSE

\* `not legs`
legs_missing(strategy_legs) == strategy_legs = <<>>

\* leg_tickers[0].split(":")[1][:6].rstrip("0123456789"); Absent stands for the
\* IndexError of [0] on an empty list and of [1] on an identifier without ":".
underlying_ticker_of(leg_tickers) ==
    IF Len(leg_tickers) = 0 THEN Absent
    ELSE LET parts == Split(leg_tickers[1], ":")
         IN  IF Len(parts) < 2 THEN Absent
             ELSE Some(RStripDigits(Prefix(parts[2], RootLen)))

leg_tickers_of(legs) == [i \in DOMAIN legs |-> legs[i].option_ticker]

\* {snap["ticker"]: snap for snap in results}: a later entry replaces an
\* earlier one of the same ticker.
snapshot_map_of(results) ==
    [t \in {results[i].ticker : i \in DOMAIN results} |->
        results[CHOOSE i \in DOMAIN results :
                    /\ results[i].ticker = t
                    /\ \A j \in DOMAIN results : results[j].ticker = t => j <= i]]

\* stock_snapshot.get("session", {}).get("close")
\*     or stock_snapshot.get("last_trade", {}).get("price")
\* `a or b` is b when a is None or zero.
resolve_underlying_price(stock_snapshot) ==
    IF stock_snapshot.session_close # Absent /\ stock_snapshot.session_close[1] # 0
    THEN stock_snapshot.session_close
    ELSE stock_snapshot.last_trade_price

\* not snap or snap.get("error") or not snap.get("greeks")
leg_snapshot_invalid(snap) ==
    \/ snap = Absent
    \/ snap[1].error
    \/ snap[1].greeks = Absent
    \/ DOMAIN snap[1].greeks[1] = {}

\* the KeyError of snap["last_quote"], snap["greeks"][name] or snap["details"]
leg_raises(snap) ==
    \/ snap.last_quote = Absent
    \/ \E i \in DOMAIN GreekNames : GreekNames[i] \notin DOMAIN snap.greeks[1]
    \/ snap.details = Absent

\* Mutant of sign_of: every leg counted as bought
sign_of_unsigned(leg) == 1

sign_of(leg) == IF Upper(leg.action) = "BUY" THEN 1 ELSE -1

\* Mutant of mid_price_of: the bid instead of the mid price
mid_price_of_bid(snap) == snap.last_quote[1].bid

mid_price_of(snap) == (snap.last_quote[1].bid + snap.last_quote[1].ask) \div 2

\* The loop over the legs from leg i on, with the values accumulated so far.
RECURSIVE leg_loop(_, _, _, _)
leg_loop(legs, snapshot_map, i, acc) ==
    IF i > Len(legs) THEN acc
    ELSE LET leg == legs[i]
             snap == Get(snapshot_map, leg.option_ticker)
         IN  IF leg_snapshot_invalid(snap)
             THEN [acc EXCEPT !.outcome = "invalid", !.leg = leg.option_ticker]
             ELSE IF leg_raises(snap[1])
             THEN [acc EXCEPT !.outcome = "raised", !.leg = leg.option_ticker]
             ELSE LET sign == sign_of(leg)
                      mid_price == mid_price_of(snap[1])
                  IN  leg_loop(legs, snapshot_map, i + 1,
                        [acc EXCEPT
                           !.net_cost = @ + sign * mid_price * leg.quantity * ContractSize,
                           !.position_greeks =
                               [g \in DOMAIN @ |->
                                   @[g] + sign * leg.quantity * snap[1].greeks[1][g]],
                           !.processed_legs = Append(@,
                               [strike |-> snap[1].details[1].strike_price,
                                type |-> snap[1].details[1].contract_type,
                                cost_per_share |-> mid_price * sign,
                                quantity |-> leg.quantity])])

resolve_legs(legs, snapshot_map) ==
    leg_loop(legs, snapshot_map, 1,
        [outcome |-> "ok", leg |-> <<>>, net_cost |-> 0,
         position_greeks |-> [g \in {GreekNames[i] : i \in DOMAIN GreekNames} |-> 0],
         processed_legs |-> <<>>])

\* steps 3 to 5: the analysis of resolved legs
analysis_of(resolved, underlying_price) ==
    LET pl_chart_data == pl_chart(resolved.processed_legs, underlying_price)
        profit_losses == [i \in DOMAIN pl_chart_data |-> pl_chart_data[i].profit_loss]
    IN  [max_profit |-> SeqMax(profit_losses),
         max_loss |-> SeqMin(profit_losses),
         breakeven_points |-> breakeven_points(pl_chart_data, GridDen * UnitsPerCent),
         net_cost |-> resolved.net_cost,
         position_delta |-> resolved.position_greeks["delta"],
         position_gamma |-> resolved.position_greeks["gamma"],
         position_theta |-> resolved.position_greeks["theta"],
         position_vega |-> resolved.position_greeks["vega"],
         pl_chart_data |-> pl_chart_data]

\* Mutant of is_success: only server errors raise
is_success_below_500(status_code) == status_code < 500

\* httpx.Response.raise_for_status(): any status outside 2xx raises
is_success(status_code) == status_code >= 200 /\ status_code <= 299

\* The handler from the provider's answer on (lines 107 to 223).
analyze_response(legs, underlying_ticker, tickers, res) ==
    IF res.transport_error
    THEN ErrorResult("unexpected", <<>>, 500)
    ELSE IF ~is_success(res.status_code)
    THEN ErrorResult("http_error", <<>>, res.status_code)
    ELSE IF res.results = Absent \/ res.results[1] = <<>>
    THEN ErrorResult("no_snapshot_data", tickers, 404)
    ELSE
    LET snapshot_map == snapshot_map_of(res.results[1])
        stock_snapshot == Get(snapshot_map, underlying_ticker)
    IN  IF stock_snapshot = Absent
        THEN ErrorResult("no_underlying_snapshot", <<underlying_ticker>>, 404)
        ELSE
        LET underlying_price == resolve_underlying_price(stock_snapshot[1])
        IN  IF underlying_price = Absent
            THEN ErrorResult("no_price", <<underlying_ticker>>, 400)
            ELSE
            LET resolved == resolve_legs(legs, snapshot_map)
            IN  CASE resolved.outcome = "invalid" ->
                       ErrorResult("invalid_leg", <<resolved.leg>>, 400)
                  [] resolved.outcome = "raised" ->
                       ErrorResult("unexpected", <<>>, 500)
                  [] OTHER -> analysis_of(resolved, underlying_price[1])

\* analyze_strategy_endpoint: an error result becomes an HTTPException with
\* its status code, any other result the 200 response.
endpoint_status(analysis_result) ==
    IF "error" \in DOMAIN analysis_result
    THEN IF "status_code" \in DOMAIN analysis_result
         THEN analysis_result.status_code ELSE 400
    ELSE 200

\* ------------------------------------------------------------------------
\* Inputs: strategies and provider answers
\* ------------------------------------------------------------------------
\* Identifiers are sequences of characters.
\* "O:SPY240920C00500000"
CallTicker ==
    <<"O", ":", "S", "P", "Y", "2", "4", "0", "9", "2", "0", "C", "0", "0", "5", "0", "0", "0", "0", "0">>

\* "O:SPY240920P00500000"
PutTicker ==
    <<"O", ":", "S", "P", "Y", "2", "4", "0", "9", "2", "0", "P", "0", "0", "5", "0", "0", "0", "0", "0">>

\* "SPY240920C00500000": an identifier without the "O:" prefix
BareTicker ==
    <<"S", "P", "Y", "2", "4", "0", "9", "2", "0", "C", "0", "0", "5", "0", "0", "0", "0", "0">>

\* "SPY"
StockTicker == <<"S", "P", "Y">>

OptionLeg(option_ticker, action, quantity) ==
    [option_ticker |-> option_ticker, action |-> action, quantity |-> quantity]

Legs ==
    {OptionLeg(t, a, q) : t \in {CallTicker, PutTicker}, a \in {"BUY", "SELL"},
                          q \in 1..MaxQty}
    \cup {OptionLeg(CallTicker, "buy", 1), OptionLeg(BareTicker, "BUY", 1)}
    \* action is a str and quantity an int: any text and any integer pass
    \* the validation of the request
    \cup {OptionLeg(CallTicker, "HOLD", 1), OptionLeg(PutTicker, "BUY", 0)}

\* StrategyDefinition.legs: no leg, one leg or two
Strategies == {<<>>} \cup {<<a>> : a \in Legs} \cup {<<a, b>> : a \in Legs, b \in Legs}

Quote(bid, ask) == [bid |-> bid, ask |-> ask]

\* The strike of both contracts, in half-cents
Strike == 20

\* Greeks in hundredths
GreeksOf(ticker) ==
    IF ticker = CallTicker
    THEN [delta |-> 50, gamma |-> 2, theta |-> -5, vega |-> 10]
    ELSE [delta |-> -40, gamma |-> 3, theta |-> -4, vega |-> 9]

Snapshot(ticker, error, greeks, last_quote, details, session_close, last_trade_price) ==
    [ticker |-> ticker, error |-> error, greeks |-> greeks,
     last_quote |-> last_quote, details |-> details,
     session_close |-> session_close, last_trade_price |-> last_trade_price]

DetailsOf(ticker) ==
    [strike_price |-> Strike,
     contract_type |-> IF ticker = CallTicker THEN "call" ELSE "put"]

GoodSnap(ticker, quote) ==
    Snapshot(ticker, FALSE, Some(GreeksOf(ticker)), Some(quote),
             Some(DetailsOf(ticker)), Absent, Absent)

\* The ways a leg's snapshot is unusable: flagged with an error, without
\* Greeks, with an empty Greeks object, without a quote.
BadSnaps(ticker) ==
    LET good == GoodSnap(ticker, Quote(4, 4))
    IN  {[good EXCEPT !.error = TRUE],
         [good EXCEPT !.greeks = Absent],
         [good EXCEPT !.greeks = Some(<<>>)],
         [good EXCEPT !.last_quote = Absent]}

\* Quotes in half-cents; the last one is bid 10.00, ask 10.20
CallQuotes == {Quote(0, 0), Quote(2, 4), Quote(4, 4), Quote(4, 6), Quote(2000, 2040)}

PutQuotes == {Quote(2, 4), Quote(4, 4)}

StockSnap(session_close, last_trade_price) ==
    Snapshot(StockTicker, FALSE, Absent, Absent, Absent, session_close, last_trade_price)

\* Underlying snapshots: session close and last trade price, each optional
StockSnaps ==
    {StockSnap(Absent, Absent), StockSnap(Some(0), Absent),
     StockSnap(Some(0), Some(24)), StockSnap(Absent, Some(0)),
     StockSnap(Some(12), Absent), StockSnap(Some(16), Absent),
     StockSnap(Absent, Some(20)), StockSnap(Some(24), Some(16)),
     StockSnap(Some(32), Absent)}

Response(status_code, results) ==
    [transport_error |-> FALSE, status_code |-> status_code, results |-> results]

\* The result lists the provider may send on a 200 answer
ResultLists ==
    \* every leg usable, any underlying snapshot or none
    {<<GoodSnap(CallTicker, c), GoodSnap(PutTicker, p)>> \o u :
        c \in CallQuotes, p \in PutQuotes,
        u \in {<<>>} \cup {<<x>> : x \in StockSnaps}}
    \* one leg unusable or missing
    \cup {<<b, GoodSnap(PutTicker, Quote(4, 4)), StockSnap(Some(24), Some(16))>> :
            b \in BadSnaps(CallTicker)}
    \cup {<<GoodSnap(CallTicker, Quote(4, 4)), b, StockSnap(Some(24), Some(16))>> :
            b \in BadSnaps(PutTicker)}
    \cup {<<GoodSnap(PutTicker, Quote(4, 4)), StockSnap(Some(24), Some(16))>>,
          <<GoodSnap(CallTicker, Quote(4, 4)), StockSnap(Some(24), Some(16))>>}
    \* the same ticker twice
    \cup {<<GoodSnap(CallTicker, Quote(2, 4)), GoodSnap(CallTicker, Quote(4, 4)),
            GoodSnap(PutTicker, Quote(4, 4)), StockSnap(Some(24), Some(16))>>}

\* The provider answers for the identifiers it was asked about.
Requested(results, tickers) ==
    SelectSeq(results, LAMBDA snap : \E i \in DOMAIN tickers : tickers[i] = snap.ticker)

FailureStatuses == {404, 429, 500}

Responses(tickers) ==
    {Response(200, Some(Requested(r, tickers))) : r \in ResultLists}
    \cup {Response(200, Absent)}
    \cup {Response(c, Absent) : c \in FailureStatuses}
    \cup {[transport_error |-> TRUE, status_code |-> 0, results |-> Absent]}

\* ------------------------------------------------------------------------
\* The state machine: one request to POST /api/v1/strategies/analyze
\* ------------------------------------------------------------------------
VARIABLES
    pc,               \* "idle", "awaiting" (the snapshot request is out), "done"
    api_key,          \* TRUE when settings.POLYGON_API_KEY is not empty
    legs,             \* strategy.legs of the request
    request,          \* all_tickers_to_query of the snapshot request sent
    provider_calls,   \* requests sent to the market-data provider
    snapshot_res,     \* the provider's answer
    analysis_result,  \* what analyze_strategy_performance returned
    http_status,      \* status of the endpoint's response
    curve,            \* Breakeven Locator alone: the payoff curve given to it
    located,          \* Breakeven Locator alone: the breakeven points it found
    prices,           \* calculate_hv: the daily closes given to it
    window,           \* calculate_hv: the rolling window
    hv_list,          \* calculate_hv: Absent, then Some(the list returned)
    iv_series,        \* calculate_iv_indicators: the series given to it
    iv_indicators,    \* calculate_iv_indicators: Absent, then Some(the dict)
    vol_pc,           \* get_volatility_analysis: "idle", "gathering", "done"
    vol_keys,         \* TRUE when FMP_API_KEY and POLYGON_API_KEY are both set
    vol_ticker,       \* the ticker of the volatility request
    fmp_task,         \* the implied-volatility fetch: its state and outcome
    polygon_task,     \* the price-bar fetch: its state and outcome
    vol_result,       \* the volatility endpoint's answer
    app_phase,        \* lifespan: "starting", "serving", "stopped"
    app_state,        \* AppState._state, a dict
    probe,            \* what check_polygon_options_access returned at startup
    chain_pc,         \* get_option_chain: "idle", "price", "snapshot", "done"
    chain_request,    \* ticker, expiration_date and the service's is_live
    chain_log,        \* provider requests sent for the current chain request
    price_res,        \* the provider's answer to the last-trade request
    chain_res,        \* the provider's answer to the chain-snapshot request
    chain_result,     \* the option-chain endpoint's answer
    legacy_pc,        \* main.py get_option_chain: "idle", "gathering", "done"
    contracts_data,   \* main.py: the contracts listed for the expiration
    tasks,            \* main.py: the snapshot requests, one per batch
    snapshot_map,     \* main.py: Absent, then Some(the merged index)
    legacy_result,    \* main.py: the endpoint's answer
    users,            \* table users; a user's id is its position
    journal_entries,  \* table trade_journal_entries; an entry's id is its position
    tokens,           \* the access tokens issued so far
    journal_response  \* the journal endpoints' last answer, with its request

strategy_vars == <<pc, api_key, legs, request, provider_calls, snapshot_res,
                   analysis_result, http_status>>

locator_vars == <<curve, located>>

hv_vars == <<prices, window, hv_list>>

iv_vars == <<iv_series, iv_indicators>>

volatility_vars == <<vol_pc, vol_keys, vol_ticker, fmp_task, polygon_task,
                     vol_result>>

chain_vars == <<app_phase, app_state, probe, chain_pc, chain_request,
                chain_log, price_res, chain_res, chain_result>>

legacy_vars == <<legacy_pc, contracts_data, tasks, snapshot_map, legacy_result>>

journal_vars == <<users, journal_entries, tokens, journal_response>>

vars == <<strategy_vars, locator_vars, hv_vars, iv_vars, volatility_vars,
          chain_vars, legacy_vars, journal_vars>>

NoResult == [pending |-> TRUE]

\* calculate_hv(self, prices, window: int = 30)
DefaultWindow == 30

\* a task that has not been created
NotIssued == [state |-> "not_issued"]

\* The parts of the program, each with the state it has before it is used
Parts == {"strategy", "locator", "hv", "iv", "volatility", "chain", "legacy", "journal"}

AtRest(parts) ==
    /\ IF "strategy" \in parts
       THEN /\ pc = "idle"
            /\ legs = <<>>
            /\ request = <<>>
            /\ provider_calls = 0
            /\ snapshot_res = Absent
            /\ analysis_result = NoResult
            /\ http_status = 0
       ELSE TRUE
    /\ IF "locator" \in parts
       THEN /\ curve = <<>>
            /\ located = Absent
       ELSE TRUE
    /\ IF "hv" \in parts
       THEN /\ prices = <<>>
            /\ window = DefaultWindow
            /\ hv_list = Absent
       ELSE TRUE
    /\ IF "iv" \in parts
       THEN /\ iv_series = <<>>
            /\ iv_indicators = Absent
       ELSE TRUE
    /\ IF "volatility" \in parts
       THEN /\ vol_pc = "idle"
            /\ vol_keys = TRUE
            /\ vol_ticker = <<>>
            /\ fmp_task = NotIssued
            /\ polygon_task = NotIssued
            /\ vol_result = NoResult
       ELSE TRUE
    /\ IF "chain" \in parts
       THEN /\ app_phase = "starting"
            /\ app_state = <<>>
            /\ probe = FALSE
            /\ chain_pc = "idle"
            /\ chain_request = Absent
            /\ chain_log = <<>>
            /\ price_res = Absent
            /\ chain_res = Absent
            /\ chain_result = NoResult
       ELSE TRUE
    /\ IF "legacy" \in parts
       THEN /\ legacy_pc = "idle"
            /\ contracts_data = <<>>
            /\ tasks = <<>>
            /\ snapshot_map = Absent
            /\ legacy_result = NoResult
       ELSE TRUE
    /\ IF "journal" \in parts
       THEN /\ users = <<>>
            /\ journal_entries = <<>>
            /\ tokens = {}
            /\ journal_response = NoResult
       ELSE TRUE

Init ==
    /\ AtRest(Parts)
    /\ api_key \in BOOLEAN

Return(result) ==
    /\ analysis_result' = result
    /\ http_status' = endpoint_status(result)
    /\ pc' = "done"

\* analyze_strategy_performance up to `await client.get(...)` (lines 80 to 106)
AnalyzeStart(strategy_legs) ==
    /\ pc = "idle"
    /\ legs' = strategy_legs
    /\ UNCHANGED <<api_key, snapshot_res, locator_vars, hv_vars, iv_vars,
                   volatility_vars, chain_vars, legacy_vars, journal_vars>>
    /\ IF legs_missing(strategy_legs)
       THEN /\ Return(ErrorResult("empty_legs", <<>>, 400))
            /\ UNCHANGED <<request, provider_calls>>
       ELSE LET leg_tickers == leg_tickers_of(strategy_legs)
                underlying_ticker == underlying_ticker_of(leg_tickers)
            IN  IF underlying_ticker = Absent
                THEN /\ Return(ErrorResult("unexpected", <<>>, 500))
                     /\ UNCHANGED <<request, provider_calls>>
                ELSE IF ~api_key
                THEN /\ Return(ErrorResult("no_api_key", <<>>, 500))
                     /\ UNCHANGED <<request, provider_calls>>
                ELSE /\ request' = leg_tickers \o underlying_ticker
                     /\ provider_calls' = provider_calls + 1
                     /\ pc' = "awaiting"
                     /\ UNCHANGED <<analysis_result, http_status>>

\* analyze_strategy_performance from the provider's answer to its return, and
\* the endpoint's translation of the result (lines 107 to 223)
AnalyzeFinish(res) ==
    /\ pc = "awaiting"
    /\ snapshot_res' = Some(res)
    /\ Return(analyze_response(legs, request[Len(request)], request, res))
    /\ UNCHANGED <<api_key, legs, request, provider_calls, locator_vars,
                   hv_vars, iv_vars, volatility_vars, chain_vars, legacy_vars, journal_vars>>

Next ==
    \/ \E strategy_legs \in Strategies : AnalyzeStart(strategy_legs)
    \/ \E res \in Responses(request) : AnalyzeFinish(res)

Spec == Init /\ [][Next]_vars

\* ------------------------------------------------------------------------
\* The Breakeven Locator alone (lines 191 to 199), on curves of a few points
\* ------------------------------------------------------------------------
MaxCurveLen == 4

\* prices in cents: 90.00, 95.00, 100.00, 105.00, ...
CurvePrice(i) == 8500 + 500 * i

ProfitLosses == {-100, -50, -1, 0, 60}

Curves ==
    UNION {{[i \in 1..n |-> [price_at_expiration |-> CurvePrice(i), profit_loss |-> f[i]]] :
                f \in [1..n -> ProfitLosses]} : n \in 2..MaxCurveLen}

InitLocator ==
    /\ AtRest(Parts \ {"locator"})
    /\ api_key = TRUE
    /\ curve \in Curves
    /\ located = Absent

Locate ==
    /\ located = Absent
    /\ located' = Some(breakeven_points(curve, 1))
    /\ UNCHANGED <<strategy_vars, curve, hv_vars, iv_vars, volatility_vars,
                   chain_vars, legacy_vars, journal_vars>>

NextLocator == Locate

SpecLocator == InitLocator /\ [][NextLocator]_vars


\* ------------------------------------------------------------------------
\* Historical volatility
\* (volatility_calculator_service.py, calculate_hv, lines 81 to 115)
\*
\* Numbers.  Prices are powers of two, so that a log return is an exact
\* integer number of ln 2: ln(p / q) = (Log2(p) - Log2(q)) ln 2.  A sample
\* standard deviation is irrational; the model keeps its square.  For a row
\* x of W returns, std(ddof = 1)^2 = (W sum(x^2) - sum(x)^2) / (W (W - 1)),
\* and the annualized volatility squared is 252 times that.  A value v of
\* the model stands for the float sqrt(v / (W (W - 1))) ln 2.
\* ------------------------------------------------------------------------
MaxPrices == 4

MaxWindow == 3

\* np.sqrt(252)
TradingDays == 252

PriceLevels == {1, 2, 4}

Log2(p) == CHOOSE k \in 0..Cardinality(PriceLevels) : 2 ^ k = p

RECURSIVE SeqSum(_)
SeqSum(a) == IF a = <<>> THEN 0 ELSE a[1] + SeqSum(Tail(a))

\* np.roll(a, shift): the element at i comes from i - shift, around the end
roll(a, shift) == [i \in 1..Len(a) |-> a[((i - 1 - shift) % Len(a)) + 1]]

\* np.log(np.array(prices) / np.roll(np.array(prices), 1)), in units of ln 2
log_returns(p) == [i \in 1..Len(p) |-> Log2(p[i]) - Log2(roll(p, 1)[i])]

\* Mutant of rolling_rows: one row short
rolling_rows_short(n, w) == n - w

\* shape[0] of the strided view: len(log_returns) - window + 1
rolling_rows(n, w) == n - w + 1

\* np.lib.stride_tricks.as_strided(a, shape = (rows, cols)) with both strides
\* one element: row i, column j is a[i + j] (0-based), a[i + j - 1] (1-based)
as_strided(a, rows, cols) == [i \in 1..rows |-> [j \in 1..cols |-> a[i + j - 1]]]

\* (.std(axis = 1, ddof = 1) * np.sqrt(252)) squared, of one row of W
\* returns, times W (W - 1)
annualized_hv_sq(row) ==
    TradingDays * (Len(row) * SeqSum([j \in 1..Len(row) |-> row[j] * row[j]])
                       - SeqSum(row) * SeqSum(row))

calculate_hv(p, w) ==
    IF Len(p) < w
    THEN <<>>
    ELSE LET returns == log_returns(p)
             rolling == as_strided(returns, rolling_rows(Len(returns), w), w)
             annualized_hv == [i \in 1..Len(rolling) |-> Some(annualized_hv_sq(rolling[i]))]
             padding == [i \in 1..(Len(p) - Len(annualized_hv)) |-> Absent]
         IN  padding \o annualized_hv

InitHV ==
    /\ AtRest(Parts \ {"hv"})
    /\ api_key = TRUE
    /\ prices \in UNION {[1..n -> PriceLevels] : n \in 0..MaxPrices}
    /\ window \in 2..MaxWindow
    /\ hv_list = Absent

CalculateHV ==
    /\ hv_list = Absent
    /\ hv_list' = Some(calculate_hv(prices, window))
    /\ UNCHANGED <<strategy_vars, locator_vars, prices, window, iv_vars,
                   volatility_vars, chain_vars, legacy_vars, journal_vars>>

SpecHV == InitHV /\ [][CalculateHV]_vars

\* ------------------------------------------------------------------------
\* IV rank and IV percentile
\* (volatility_calculator_service.py, calculate_iv_indicators, lines 117
\* to 152)
\*
\* Numbers.  An implied volatility is counted in hundredths (0.2 is 20);
\* iv_rank and iv_percentile are percentages with two decimals, counted in
\* hundredths of a percent (50.0 is 5000).
\* ------------------------------------------------------------------------
MaxSeries == 3

\* hundredths of a percent in 100 percent: "* 100" and round(..., 2)
FullScale == 10000

\* [iv for iv in iv_series if iv is not None]
clean_iv_series_of(series) ==
    LET kept == SelectSeq(series, LAMBDA iv : iv # Absent)
    IN  [i \in 1..Len(kept) |-> kept[i][1]]

\* Mutant of current_iv_of: the first observation
current_iv_first(clean) == clean[1]

\* clean_iv_series[-1]
current_iv_of(clean) == clean[Len(clean)]

high_52wk_of(clean) == CHOOSE v \in {clean[i] : i \in 1..Len(clean)} :
                           \A i \in 1..Len(clean) : clean[i] <= v

\* Mutant of low_52wk_of: the first observation
low_52wk_first(clean) == clean[1]

low_52wk_of(clean) == CHOOSE v \in {clean[i] : i \in 1..Len(clean)} :
                          \A i \in 1..Len(clean) : clean[i] >= v

\* round(ivr, 2)
iv_rank_of(current_iv, high_52wk, low_52wk) ==
    IF high_52wk - low_52wk > 0
    THEN RoundHalfEven((current_iv - low_52wk) * FullScale, high_52wk - low_52wk)
    ELSE 0

\* round(ivp, 2), ivp = np.sum(clean < current_iv) / len(clean) * 100
iv_percentile_of(clean, current_iv) ==
    RoundHalfEven(Cardinality({i \in 1..Len(clean) : clean[i] < current_iv}) * FullScale,
                  Len(clean))

\* the empty dict is the function of empty domain
calculate_iv_indicators(series) ==
    IF series = <<>>
    THEN <<>>
    ELSE LET clean == clean_iv_series_of(series)
         IN  IF clean = <<>>
             THEN <<>>
             ELSE LET current_iv == current_iv_of(clean)
                      high_52wk == high_52wk_of(clean)
                      low_52wk == low_52wk_of(clean)
                  IN  [current_iv |-> current_iv,
                       iv_rank |-> iv_rank_of(current_iv, high_52wk, low_52wk),
                       iv_percentile |-> iv_percentile_of(clean, current_iv),
                       iv_52_week_high |-> high_52wk,
                       iv_52_week_low |-> low_52wk]

InitIV ==
    /\ AtRest(Parts \ {"iv"})
    /\ api_key = TRUE
    /\ iv_series \in UNION {[1..n -> {Absent} \cup {Some(v) : v \in {20, 30, 50, 80}}] :
                                n \in 0..MaxSeries}
    /\ iv_indicators = Absent

CalculateIV ==
    /\ iv_indicators = Absent
    /\ iv_indicators' = Some(calculate_iv_indicators(iv_series))
    /\ UNCHANGED <<strategy_vars, locator_vars, hv_vars, iv_series,
                   volatility_vars, chain_vars, legacy_vars, journal_vars>>

SpecIV == InitIV /\ [][CalculateIV]_vars

\* ------------------------------------------------------------------------
\* Startup probe, live/mock flag and option chain
\* (app/main.py, lifespan and check_polygon_options_access;
\*  app/state.py, AppState; app/dependencies.py, get_option_chain_service;
\*  app/routers/options.py and app/services/option_chain_service.py,
\*  get_option_chain)
\*
\* Numbers.  Prices and strikes of a chain are counted in cents, Greeks and
\* implied volatility in hundredths.
\* ------------------------------------------------------------------------
MaxContracts == 3

\* a request that raised instead of answering
TransportError == [transport_error |-> TRUE, status_code |-> 0, results |-> Absent]

\* check_polygon_options_access: TRUE only for a 200 answer that lists the
\* probe option without an error
check_polygon_options_access(res) ==
    IF res.transport_error
    THEN FALSE
    ELSE IF res.status_code = 200
    THEN LET results == IF res.results = Absent THEN <<>> ELSE res.results[1]
         IN  \E i \in DOMAIN results :
                 /\ results[i].ticker = Some("O:SPY250815C00550000")
                 /\ results[i].error = Absent
    ELSE FALSE

ProbeResponses ==
    {TransportError}
    \cup {Response(status_code, Absent) : status_code \in {200, 403}}
    \cup {Response(200, Some(results)) :
            results \in {<<>>,
                         <<[ticker |-> Some("SPY"), error |-> Absent]>>,
                         <<[ticker |-> Some("SPY"), error |-> Absent],
                           [ticker |-> Some("O:SPY250815C00550000"), error |-> Absent]>>,
                         <<[ticker |-> Some("O:SPY250815C00550000"),
                            error |-> Some("NOT_ENTITLED")]>>}}

\* Mutant of is_live_of: every request is live
is_live_always(state) == TRUE

\* bool(app_state.get("polygon_options_accessible", False))
is_live_of(state) ==
    LET value == Get(state, "polygon_options_accessible")
    IN  IF value = Absent THEN FALSE ELSE value[1]

\* Mutant of upper_chars: the ticker taken as it was typed
upper_chars_kept(s) == s

\* str.upper() on the letters that occur in the tickers
upper_chars(s) ==
    [i \in 1..Len(s) |->
        CASE s[i] = "s" -> "S"
          [] s[i] = "p" -> "P"
          [] s[i] = "y" -> "Y"
          [] OTHER -> s[i]]

\* f"O:{ticker.upper()}{expiration_date[2:].replace('-', '')}C00210000"
mock_symbol(ticker, expiration_date, suffix) ==
    <<"O", ":">> \o upper_chars(ticker)
        \o SelectSeq(SubSeq(expiration_date, 3, Len(expiration_date)), LAMBDA c : c # "-")
        \o <<suffix>>

OptionContract(symbol, strike_price, contract_type, bid, ask, last_price, volume, open_interest, implied_volatility, delta, gamma, theta, vega, is_itm) ==
    [symbol |-> symbol, strike_price |-> strike_price,
     contract_type |-> contract_type, bid |-> bid, ask |-> ask,
     last_price |-> last_price, volume |-> volume,
     open_interest |-> open_interest,
     implied_volatility |-> implied_volatility, delta |-> delta,
     gamma |-> gamma, theta |-> theta, vega |-> vega, is_itm |-> is_itm]

OptionChain(isMock, underlying_price, calls, puts) ==
    [isMock |-> isMock, underlying_price |-> underlying_price,
     calls |-> calls, puts |-> puts]

\* underlying_price = 215.50
MockUnderlyingPrice == 21550

\* Mutant of mock_calls: the last call left out
mock_calls_short(ticker, expiration_date) ==
    <<OptionContract(mock_symbol(ticker, expiration_date, "C00210000"), 21000, "call",
                     750, 760, Some(755), Some(150), Some(1200), Some(28),
                     Some(65), Some(5), Some(-12), Some(35), TRUE),
      OptionContract(mock_symbol(ticker, expiration_date, "C00215000"), 21500, "call",
                     420, 425, Some(422), Some(350), Some(2500), Some(27),
                     Some(51), Some(7), Some(-15), Some(40), TRUE)>>

mock_calls(ticker, expiration_date) ==
    <<OptionContract(mock_symbol(ticker, expiration_date, "C00210000"), 21000, "call",
                     750, 760, Some(755), Some(150), Some(1200), Some(28),
                     Some(65), Some(5), Some(-12), Some(35), TRUE),
      OptionContract(mock_symbol(ticker, expiration_date, "C00215000"), 21500, "call",
                     420, 425, Some(422), Some(350), Some(2500), Some(27),
                     Some(51), Some(7), Some(-15), Some(40), TRUE),
      OptionContract(mock_symbol(ticker, expiration_date, "C00220000"), 22000, "call",
                     210, 215, Some(213), Some(280), Some(1800), Some(26),
                     Some(35), Some(6), Some(-14), Some(38), FALSE)>>

mock_puts(ticker, expiration_date) ==
    <<OptionContract(mock_symbol(ticker, expiration_date, "P00210000"), 21000, "put",
                     280, 285, Some(283), Some(180), Some(1500), Some(28),
                     Some(-38), Some(6), Some(-13), Some(36), FALSE),
      OptionContract(mock_symbol(ticker, expiration_date, "P00215000"), 21500, "put",
                     480, 490, Some(485), Some(320), Some(2200), Some(27),
                     Some(-49), Some(7), Some(-15), Some(40), FALSE),
      OptionContract(mock_symbol(ticker, expiration_date, "P00220000"), 22000, "put",
                     790, 800, Some(795), Some(210), Some(1900), Some(29),
                     Some(-62), Some(5), Some(-11), Some(34), TRUE)>>

\* _get_mock_option_chain
mock_option_chain(ticker, expiration_date) ==
    OptionChain(TRUE, MockUnderlyingPrice, mock_calls(ticker, expiration_date),
                mock_puts(ticker, expiration_date))

\* what an endpoint answers: the response model, or an HTTPException
Ok(body) == [status_code |-> 200, body |-> Some(body), detail |-> ""]

HTTPException(status_code, detail) ==
    [status_code |-> status_code, body |-> Absent, detail |-> detail]

\* _fetch_underlying_price: data["results"]["p"], and whatever goes wrong
\* (a transport error, an error status, a missing key) raises; Absent here
price_of(res) ==
    IF res.transport_error \/ ~is_success(res.status_code)
    THEN Absent
    ELSE res.results

\* Mutant of Truthy: a zero or an empty text counted as a value
Truthy_present(value, empty) == value # Absent

\* truth value of details.get(...): the key is there and its value is not
\* the empty one of its type
Truthy(value, empty) == value # Absent /\ value[1] # empty

\* "Skip if essential data is missing": `not all([...])`
essential_missing(contract_snapshot) ==
    ~ /\ Truthy(contract_snapshot.details.ticker, "")
      /\ Truthy(contract_snapshot.details.strike_price, 0)
      /\ Truthy(contract_snapshot.details.contract_type, "")
      /\ contract_snapshot.quote.bid # Absent
      /\ contract_snapshot.quote.ask # Absent

\* the OptionContract built from one snapshot of the provider
option_contract_of(contract_snapshot) ==
    OptionContract(contract_snapshot.details.ticker[1],
                   contract_snapshot.details.strike_price[1],
                   contract_snapshot.details.contract_type[1],
                   contract_snapshot.quote.bid[1],
                   contract_snapshot.quote.ask[1],
                   contract_snapshot.last_trade.price,
                   contract_snapshot.details.volume,
                   contract_snapshot.details.open_interest,
                   contract_snapshot.greeks.implied_volatility,
                   contract_snapshot.greeks.delta,
                   contract_snapshot.greeks.gamma,
                   contract_snapshot.greeks.theta,
                   contract_snapshot.greeks.vega,
                   IF contract_snapshot.in_the_money = Absent
                   THEN FALSE
                   ELSE contract_snapshot.in_the_money[1])

\* Mutant of sort_by_strike: the list left as it was appended
sort_by_strike_skipped(contracts) == contracts

\* list.sort(key = lambda x: x.strike_price): ascending and stable
sort_by_strike(contracts) ==
    LET before(j, i) ==
            \/ contracts[j].strike_price < contracts[i].strike_price
            \/ contracts[j].strike_price = contracts[i].strike_price /\ j < i
        rank(i) == 1 + Cardinality({j \in DOMAIN contracts : before(j, i)})
    IN  [r \in DOMAIN contracts |->
            contracts[CHOOSE i \in DOMAIN contracts : rank(i) = r]]

\* the loop over data.get("results", []) and the two sorts
live_option_chain(underlying_price, results) ==
    LET kept == SelectSeq(results, LAMBDA snap : ~essential_missing(snap))
        built == [i \in DOMAIN kept |-> option_contract_of(kept[i])]
        calls == SelectSeq(built, LAMBDA c : c.contract_type = "call")
        puts == SelectSeq(built, LAMBDA c : c.contract_type # "call")
    IN  OptionChain(FALSE, underlying_price, sort_by_strike(calls),
                    sort_by_strike(puts))

\* ---- what the provider may answer ----
ContractDetails(ticker, strike_price, contract_type) ==
    [ticker |-> ticker, strike_price |-> strike_price,
     contract_type |-> contract_type, volume |-> Some(100),
     open_interest |-> Some(1000)]

NoDetails ==
    [ticker |-> Absent, strike_price |-> Absent, contract_type |-> Absent,
     volume |-> Absent, open_interest |-> Absent]

ContractSnapshot(details, quote, in_the_money) ==
    [details |-> details,
     greeks |-> [implied_volatility |-> Absent, delta |-> Some(50),
                 gamma |-> Some(10), theta |-> Some(-10), vega |-> Some(20)],
     last_trade |-> [price |-> Some(500)],
     quote |-> quote,
     in_the_money |-> in_the_money]

\* a complete snapshot, as in test_get_option_chain_success
GoodContract(contract_type, strike_price, in_the_money) ==
    ContractSnapshot(ContractDetails(Some(<<"O:AAPL240920", contract_type, strike_price>>),
                                     Some(strike_price), Some(contract_type)),
                     [bid |-> Some(490), ask |-> Some(510)], in_the_money)

ContractSnapshots ==
    {GoodContract("call", 14000, Some(TRUE)),
     GoodContract("call", 16000, Some(FALSE)),
     GoodContract("call", 16000, Some(TRUE)),
     GoodContract("put", 14000, Some(FALSE)),
     GoodContract("put", 16000, Some(TRUE)),
     GoodContract("put", 14000, Some(TRUE)),
     GoodContract("call", 15000, Some(TRUE)),
     GoodContract("put", 15000, Absent),
     GoodContract("other", 15000, Some(FALSE)),
     GoodContract("call", 0, Some(FALSE)),
     ContractSnapshot(ContractDetails(Some(<<"O:AAPL240920", "call", 14000>>),
                                      Some(14000), Some("call")),
                      [bid |-> Absent, ask |-> Some(510)], Some(TRUE)),
     ContractSnapshot(ContractDetails(Absent, Some(15000), Some("put")),
                      [bid |-> Some(490), ask |-> Some(510)], Some(FALSE)),
     ContractSnapshot(NoDetails, [bid |-> Some(490), ask |-> Some(510)], Some(FALSE))}

ChainResponses ==
    {TransportError, Response(200, Absent)}
    \cup {Response(status_code, Absent) : status_code \in FailureStatuses}
    \cup {Response(200, Some(results)) :
            results \in UNION {[1..n -> ContractSnapshots] : n \in 0..MaxContracts}}

PriceResponses ==
    {TransportError, Response(200, Absent)}
    \cup {Response(status_code, Absent) : status_code \in FailureStatuses}
    \cup {Response(200, Some(p)) : p \in {14000, 15000}}

ChainTickers == {<<"S", "P", "Y">>, <<"s", "p", "y">>}

Expirations == {<<"2", "0", "2", "4", "-", "0", "9", "-", "2", "0">>,
                <<"2", "0", "2", "5", "-", "0", "1", "-", "1", "7">>}

\* ---- the state machine ----
InitChain ==
    /\ AtRest(Parts)
    /\ api_key = TRUE

\* lifespan up to `yield`: the probe's verdict is stored in app_state
Startup(res) ==
    /\ app_phase = "starting"
    /\ probe' = check_polygon_options_access(res)
    /\ app_state' = [key \in DOMAIN app_state \cup {"polygon_options_accessible"} |->
                        IF key = "polygon_options_accessible"
                        THEN probe'
                        ELSE app_state[key]]
    /\ app_phase' = "serving"
    /\ UNCHANGED <<legacy_vars, journal_vars, strategy_vars, locator_vars, hv_vars, iv_vars,
                   volatility_vars, chain_pc, chain_request, chain_log,
                   price_res, chain_res, chain_result>>

\* GET /api/v1/stocks/{ticker}/options: get_option_chain_service builds the
\* service from app_state; the mock branch answers at once, the live branch
\* sends the last-trade request
ChainStart(ticker, expiration_date) ==
    /\ app_phase = "serving"
    /\ chain_pc \in {"idle", "done"}
    /\ LET is_live == is_live_of(app_state)
       IN  /\ chain_request' = Some([ticker |-> ticker,
                                     expiration_date |-> expiration_date,
                                     is_live |-> is_live])
           /\ IF is_live
              THEN /\ chain_log' = <<"last_trade">>
                   /\ chain_result' = NoResult
                   /\ chain_pc' = "price"
              ELSE /\ chain_log' = <<>>
                   /\ chain_result' = Ok(mock_option_chain(ticker, expiration_date))
                   /\ chain_pc' = "done"
    /\ price_res' = Absent
    /\ chain_res' = Absent
    /\ UNCHANGED <<legacy_vars, journal_vars, strategy_vars, locator_vars, hv_vars, iv_vars,
                   volatility_vars, app_phase, app_state, probe>>

\* the answer to the last-trade request: _fetch_underlying_price returns the
\* price and the snapshot request is sent, or it raises HTTPException(500)
PriceFetched(res) ==
    /\ chain_pc = "price"
    /\ price_res' = Some(res)
    /\ IF price_of(res) = Absent
       THEN /\ chain_result' = HTTPException(500, "underlying_price")
            /\ chain_pc' = "done"
            /\ UNCHANGED chain_log
       ELSE /\ chain_log' = Append(chain_log, "snapshot")
            /\ chain_pc' = "snapshot"
            /\ UNCHANGED chain_result
    /\ UNCHANGED <<legacy_vars, journal_vars, strategy_vars, locator_vars, hv_vars, iv_vars,
                   volatility_vars, app_phase, app_state, probe,
                   chain_request, chain_res>>

\* the answer to the chain-snapshot request, up to the endpoint's response:
\* the two except clauses, or the chain built from data.get("results", [])
SnapshotFetched(res) ==
    /\ chain_pc = "snapshot"
    /\ chain_res' = Some(res)
    /\ chain_result' =
           IF res.transport_error
           THEN HTTPException(500, "unexpected")
           ELSE IF ~is_success(res.status_code)
           THEN HTTPException(res.status_code, "polygon")
           ELSE Ok(live_option_chain(price_of(price_res[1])[1],
                                     IF res.results = Absent THEN <<>> ELSE res.results[1]))
    /\ chain_pc' = "done"
    /\ UNCHANGED <<legacy_vars, journal_vars, strategy_vars, locator_vars, hv_vars, iv_vars,
                   volatility_vars, app_phase, app_state, probe,
                   chain_request, chain_log, price_res>>

\* lifespan after `yield`: app_state.clear().  The server has stopped
\* accepting requests and drained the ones in flight before it gets here.
Shutdown ==
    /\ app_phase = "serving"
    /\ chain_pc \in {"idle", "done"}
    /\ app_state' = <<>>
    /\ app_phase' = "stopped"
    /\ UNCHANGED <<legacy_vars, journal_vars, strategy_vars, locator_vars, hv_vars, iv_vars,
                   volatility_vars, probe, chain_pc, chain_request,
                   chain_log, price_res, chain_res, chain_result>>

NextChain ==
    \/ \E res \in ProbeResponses : Startup(res)
    \/ \E ticker \in ChainTickers, expiration_date \in Expirations :
           ChainStart(ticker, expiration_date)
    \/ chain_pc = "price" /\ \E res \in PriceResponses : PriceFetched(res)
    \/ chain_pc = "snapshot" /\ \E res \in ChainResponses : SnapshotFetched(res)
    \/ Shutdown

SpecChain == InitChain /\ [][NextChain]_vars

\* ------------------------------------------------------------------------
\* Volatility analysis
\* (app/routers/volatility.py and volatility_calculator_service.py,
\* get_volatility_analysis, lines 12 to 79)
\*
\* The two provider requests are tasks of asyncio.gather: each resolves on
\* its own, in either order.  gather hands back both responses once both
\* have resolved, and raises as soon as one task has raised (a transport
\* error), without waiting for the other.
\*
\* Numbers.  A bar's timestamp is counted in hours instead of milliseconds,
\* dates are day numbers, the server's time zone is taken to be UTC.
\* ------------------------------------------------------------------------
MaxBars == 31

HoursPerDay == 24

Pending == [state |-> "pending"]

Resolved(res) == [state |-> "resolved", res |-> res]

\* the task's coroutine raised: gather re-raises it
task_raised(task) == task.state = "resolved" /\ task.res.transport_error

\* `await asyncio.gather(fmp_task, polygon_task)` is over
gather_over(fmp, polygon) ==
    \/ task_raised(fmp)
    \/ task_raised(polygon)
    \/ fmp.state = "resolved" /\ polygon.state = "resolved"

\* Mutant of fetch_failed: raise_for_status() left out
fetch_failed_transport_only(res) == res.transport_error

\* the request raised, or raise_for_status() does
fetch_failed(res) == res.transport_error \/ ~is_success(res.status_code)

\* the indices of a set, ascending
Ascending(indices) ==
    [r \in 1..Cardinality(indices) |->
        CHOOSE i \in indices : Cardinality({j \in indices : j < i}) = r - 1]

\* {item["date"]: item["impliedVolatility"] for item in fmp_data}: a key
\* keeps the place of its first item and the value of its last one
iv_map_of(fmp_data) ==
    LET firsts == Ascending({i \in DOMAIN fmp_data :
                                \A j \in 1..(i - 1) : fmp_data[j].date # fmp_data[i].date})
        last(date) == CHOOSE i \in DOMAIN fmp_data :
                          /\ fmp_data[i].date = date
                          /\ \A j \in (i + 1)..Len(fmp_data) : fmp_data[j].date # date
    IN  [k \in DOMAIN firsts |->
            [date |-> fmp_data[firsts[k]].date,
             impliedVolatility |-> fmp_data[last(fmp_data[firsts[k]].date)].impliedVolatility]]

\* iv_map.get(date_str)
iv_map_get(iv_map, date) ==
    IF \E k \in DOMAIN iv_map : iv_map[k].date = date
    THEN iv_map[CHOOSE k \in DOMAIN iv_map : iv_map[k].date = date].impliedVolatility
    ELSE Absent

\* date.fromtimestamp(p["t"] / 1000)
date_of(t) == t \div HoursPerDay

\* VolatilityAnalysis(ticker = ..., chart_data = ..., **iv_indicators)
VolatilityAnalysis(ticker, chart_data, indicators) ==
    [ticker |-> ticker,
     current_iv |-> Get(indicators, "current_iv"),
     iv_rank |-> Get(indicators, "iv_rank"),
     iv_percentile |-> Get(indicators, "iv_percentile"),
     iv_52_week_high |-> Get(indicators, "iv_52_week_high"),
     iv_52_week_low |-> Get(indicators, "iv_52_week_low"),
     chart_data |-> chart_data]

\* the loop that builds chart_data
chart_data_of(polygon_data, iv_map, hv) ==
    [i \in DOMAIN polygon_data |->
        [date |-> date_of(polygon_data[i].t),
         iv |-> iv_map_get(iv_map, date_of(polygon_data[i].t)),
         hv |-> hv[i]]]

\* ---- what the providers may answer ----
\* an item of the implied-volatility list; `complete` is FALSE when one of
\* its two keys is not there
IVItem(date, impliedVolatility, complete) ==
    [date |-> date, impliedVolatility |-> impliedVolatility, complete |-> complete]

FmpResponses ==
    {TransportError, Response(200, Absent)}
    \cup {Response(status_code, Absent) : status_code \in FailureStatuses}
    \cup {Response(200, Some(items)) :
            items \in {<<>>,
                       <<IVItem(1, Some(20), TRUE), IVItem(2, Some(80), TRUE),
                         IVItem(400, Some(50), TRUE)>>,
                       <<IVItem(1, Some(20), TRUE), IVItem(2, Some(30), TRUE),
                         IVItem(1, Some(80), TRUE)>>,
                       <<IVItem(1, Absent, TRUE), IVItem(2, Some(30), TRUE)>>,
                       <<IVItem(1, Absent, TRUE)>>,
                       <<IVItem(1, Some(20), TRUE), IVItem(2, Absent, FALSE)>>}}

\* n daily bars, closing flat or going up and down
Bars(n, flat) ==
    [i \in 1..n |-> [t |-> i * HoursPerDay, c |-> IF flat \/ i % 2 = 0 THEN 2 ELSE 4]]

PolygonResponses ==
    {TransportError, Response(200, Absent)}
    \cup {Response(status_code, Absent) : status_code \in FailureStatuses}
    \cup {Response(200, Some(Bars(n, flat))) : n \in 0..MaxBars, flat \in BOOLEAN}

\* ---- the state machine ----
InitVolatility ==
    /\ AtRest(Parts \ {"volatility"})
    /\ api_key = TRUE
    /\ vol_pc = "idle"
    /\ vol_keys \in BOOLEAN
    /\ vol_ticker = <<>>
    /\ fmp_task = NotIssued
    /\ polygon_task = NotIssued
    /\ vol_result = NoResult

\* get_volatility_analysis up to `await asyncio.gather(...)`: both requests
\* are created and handed to gather together
VolStart(ticker) ==
    /\ vol_pc = "idle"
    /\ vol_ticker' = ticker
    /\ IF ~vol_keys
       THEN /\ vol_result' = HTTPException(500, "api_keys")
            /\ vol_pc' = "done"
            /\ UNCHANGED <<fmp_task, polygon_task>>
       ELSE /\ fmp_task' = Pending
            /\ polygon_task' = Pending
            /\ vol_pc' = "gathering"
            /\ UNCHANGED vol_result
    /\ UNCHANGED <<strategy_vars, locator_vars, hv_vars, iv_vars, vol_keys,
                   chain_vars, legacy_vars, journal_vars>>

\* the implied-volatility request resolves
FmpResolve(res) ==
    /\ fmp_task = Pending
    /\ fmp_task' = Resolved(res)
    /\ UNCHANGED <<strategy_vars, locator_vars, hv_vars, iv_vars, vol_pc,
                   vol_keys, vol_ticker, polygon_task, vol_result, chain_vars, legacy_vars, journal_vars>>

\* the price-bar request resolves
PolygonResolve(res) ==
    /\ polygon_task = Pending
    /\ polygon_task' = Resolved(res)
    /\ UNCHANGED <<strategy_vars, locator_vars, hv_vars, iv_vars, vol_pc,
                   vol_keys, vol_ticker, fmp_task, vol_result, chain_vars, legacy_vars, journal_vars>>

\* get_volatility_analysis from the return of gather to the endpoint's
\* response (lines 34 to 79, and the router's two except clauses)
VolFinish ==
    /\ vol_pc = "gathering"
    /\ gather_over(fmp_task, polygon_task)
    /\ vol_pc' = "done"
    /\ IF \/ task_raised(fmp_task)
          \/ task_raised(polygon_task)
          \/ fetch_failed(fmp_task.res)
          \/ fetch_failed(polygon_task.res)
       THEN /\ vol_result' = HTTPException(503, "fetch")
            /\ UNCHANGED <<hv_vars, iv_vars>>
       ELSE LET fmp_data == IF fmp_task.res.results = Absent
                            THEN <<>>
                            ELSE fmp_task.res.results[1]
                polygon_data == IF polygon_task.res.results = Absent
                                THEN <<>>
                                ELSE polygon_task.res.results[1]
            IN  IF \E i \in DOMAIN fmp_data : ~fmp_data[i].complete
                THEN /\ vol_result' = HTTPException(500, "unexpected")
                     /\ UNCHANGED <<hv_vars, iv_vars>>
                ELSE LET iv_map == iv_map_of(fmp_data)
                         closes == [i \in DOMAIN polygon_data |-> polygon_data[i].c]
                         hv == calculate_hv(closes, DefaultWindow)
                         values == [k \in DOMAIN iv_map |-> iv_map[k].impliedVolatility]
                         indicators == calculate_iv_indicators(values)
                     IN  /\ prices' = closes
                         /\ window' = DefaultWindow
                         /\ hv_list' = Some(hv)
                         /\ iv_series' = values
                         /\ iv_indicators' = Some(indicators)
                         /\ vol_result' =
                                \* hv_list[i] raises IndexError
                                IF Len(hv) < Len(polygon_data)
                                THEN HTTPException(500, "unexpected")
                                ELSE Ok(VolatilityAnalysis(
                                         upper_chars(vol_ticker),
                                         chart_data_of(polygon_data, iv_map, hv),
                                         indicators))
    /\ UNCHANGED <<strategy_vars, locator_vars, vol_keys, vol_ticker,
                   fmp_task, polygon_task, chain_vars, legacy_vars, journal_vars>>

NextVolatility ==
    \/ \E ticker \in ChainTickers : VolStart(ticker)
    \/ fmp_task = Pending /\ \E res \in FmpResponses : FmpResolve(res)
    \/ polygon_task = Pending /\ \E res \in PolygonResponses : PolygonResolve(res)
    \/ VolFinish

SpecVolatility == InitVolatility /\ [][NextVolatility]_vars

\* ------------------------------------------------------------------------
\* The batched snapshot lookup and the chain assembled from it
\* (src/backend/main.py, get_option_chain, lines 386 to 484)
\*
\* Identifiers are numbers: the option contracts listed for the expiration
\* are 1, 2, ... in the provider's order, and 0 is the stock, ticker.upper().
\* Contract i has strike i and is a call when i is odd, a put otherwise.
\* ------------------------------------------------------------------------
MaxOptionTickers == 51

\* BATCH_SIZE = 25
BATCH_SIZE == 25

\* option_tickers + [ticker.upper()]
all_tickers_to_query_of(contracts) ==
    [i \in DOMAIN contracts |-> contracts[i].ticker] \o <<0>>

\* Mutant of batches_of: the slice taken one identifier short
batches_short(all_tickers) ==
    LET starts == Ascending({i \in 0..(Len(all_tickers) - 1) : i % BATCH_SIZE = 0})
    IN  [k \in DOMAIN starts |->
            SubSeq(all_tickers, starts[k] + 1,
                   Min(starts[k] + BATCH_SIZE - 1, Len(all_tickers)))]

\* for i in range(0, len(all_tickers_to_query), BATCH_SIZE):
\*     batch = all_tickers_to_query[i:i + BATCH_SIZE]
batches_of(all_tickers) ==
    LET starts == Ascending({i \in 0..(Len(all_tickers) - 1) : i % BATCH_SIZE = 0})
    IN  [k \in DOMAIN starts |->
            SubSeq(all_tickers, starts[k] + 1,
                   Min(starts[k] + BATCH_SIZE, Len(all_tickers)))]

\* what one element of `responses` adds to snapshot_map: nothing for an
\* exception or a status other than 200, else the items without "error"
accepted_items(res) ==
    IF res.transport_error \/ res.status_code # 200 \/ res.results = Absent
    THEN <<>>
    ELSE SelectSeq(res.results[1], LAMBDA item : ~item.error)

\* the loop over responses, in the order of the tasks
RECURSIVE merged_items(_)
merged_items(responses) ==
    IF responses = <<>> THEN <<>>
    ELSE accepted_items(Head(responses)) \o merged_items(Tail(responses))

\* the OptionContract of main.py (it has no symbol), is_itm by the rule of
\* lines 451 to 454
legacy_contract_of(snap, underlying_price) ==
    [strike_price |-> snap.details[1].strike_price,
     contract_type |-> snap.details[1].contract_type,
     bid |-> snap.last_quote[1].bid,
     ask |-> snap.last_quote[1].ask,
     last_price |-> snap.last_trade_price,
     volume |-> snap.session_volume,
     open_interest |-> snap.open_interest,
     implied_volatility |-> snap.implied_volatility,
     delta |-> snap.greeks[1].delta,
     gamma |-> snap.greeks[1].gamma,
     theta |-> snap.greeks[1].theta,
     vega |-> snap.greeks[1].vega,
     is_itm |-> \/ /\ snap.details[1].contract_type = "call"
                   /\ snap.details[1].strike_price < underlying_price
                \/ /\ snap.details[1].contract_type = "put"
                   /\ snap.details[1].strike_price > underlying_price]

\* steps 3 and 4: the stock's price from the index, then one contract for
\* every listed contract whose snapshot is in the index and has Greeks
legacy_chain_result(contracts, index) ==
    LET stock_snapshot == Get(index, 0)
    IN  IF stock_snapshot = Absent
        THEN HTTPException(404, "stock_snapshot")
        ELSE
        LET underlying_price == resolve_underlying_price(stock_snapshot[1])
            resolved == SelectSeq(contracts,
                            LAMBDA c : /\ Get(index, c.ticker) # Absent
                                       /\ Get(index, c.ticker)[1].greeks # Absent)
            snaps == [i \in DOMAIN resolved |-> index[resolved[i].ticker]]
        IN  IF underlying_price = Absent
            THEN HTTPException(404, "price")
            ELSE IF \E i \in DOMAIN snaps :
                        snaps[i].details = Absent \/ snaps[i].last_quote = Absent
            \* the KeyError of snap['details'] or snap['last_quote']
            THEN HTTPException(500, "unexpected")
            ELSE LET built == [i \in DOMAIN snaps |->
                                  legacy_contract_of(snaps[i], underlying_price[1])]
                 IN  Ok(OptionChain(FALSE, underlying_price[1],
                         sort_by_strike(SelectSeq(built,
                             LAMBDA c : c.contract_type = "call")),
                         sort_by_strike(SelectSeq(built,
                             LAMBDA c : c.contract_type # "call"))))

\* ---- what the provider may answer ----
\* the snapshot of one identifier: of the stock with its close, of a
\* contract with quote, details and Greeks; `bare` is a snapshot with
\* nothing but its ticker
UniversalSnapshot(ticker, error, bare) ==
    [ticker |-> ticker,
     error |-> error,
     greeks |-> IF bare \/ ticker = 0 THEN Absent
                ELSE Some([delta |-> 50, gamma |-> 10, theta |-> -10, vega |-> 20]),
     details |-> IF bare \/ ticker = 0 THEN Absent
                 ELSE Some([contract_type |-> IF ticker % 2 = 1 THEN "call" ELSE "put",
                            strike_price |-> ticker]),
     last_quote |-> IF bare \/ ticker = 0 THEN Absent
                    ELSE Some([bid |-> 490, ask |-> 510]),
     last_trade_price |-> Absent,
     session_close |-> IF ~bare /\ ticker = 0 THEN Some(BATCH_SIZE + 1) ELSE Absent,
     session_volume |-> Absent,
     open_interest |-> Absent,
     implied_volatility |-> Absent]

\* the answers to the request for one batch: an exception, an error
\* status, a 200 without results, and 200 with every snapshot, with the
\* first one errored, with those of the even identifiers only, or with
\* bare snapshots
BatchResponses(batch) ==
    {TransportError, Response(200, Absent)}
    \cup {Response(status_code, Absent) : status_code \in FailureStatuses}
    \cup {Response(200, Some([i \in DOMAIN batch |->
                                 UniversalSnapshot(batch[i], first_errored /\ i = 1, bare)])) :
            first_errored \in BOOLEAN, bare \in BOOLEAN}
    \cup {Response(200, Some(SelectSeq([i \in DOMAIN batch |->
                                           UniversalSnapshot(batch[i], FALSE, FALSE)],
                                       LAMBDA item : item.ticker % 2 = 0)))}

\* ---- the state machine ----
\* the application is serving with the options data accessible, and the API
\* key is set: the two early returns of lines 279 and 388 are not taken
InitLegacy ==
    /\ AtRest(Parts \ {"chain"})
    /\ api_key = TRUE
    /\ app_phase = "serving"
    /\ app_state = [key \in {"polygon_options_accessible"} |-> TRUE]
    /\ probe = TRUE
    /\ chain_pc = "idle"
    /\ chain_request = Absent
    /\ chain_log = <<>>
    /\ price_res = Absent
    /\ chain_res = Absent
    /\ chain_result = NoResult

\* get_option_chain up to `await asyncio.gather(*tasks, ...)`: the contracts
\* are listed, and one request per batch is issued
LegacyStart(listed) ==
    /\ legacy_pc = "idle"
    /\ is_live_of(app_state)
    /\ api_key
    /\ contracts_data' = [i \in 1..listed |-> [ticker |-> i]]
    /\ snapshot_map' = Absent
    /\ IF listed = 0
       THEN /\ legacy_result' = Ok(OptionChain(FALSE, 0, <<>>, <<>>))
            /\ legacy_pc' = "done"
            /\ tasks' = <<>>
       ELSE LET batches == batches_of(all_tickers_to_query_of(contracts_data'))
            IN  /\ tasks' = [k \in DOMAIN batches |->
                                [batch |-> batches[k], task |-> Pending]]
                /\ legacy_pc' = "gathering"
                /\ UNCHANGED legacy_result
    /\ UNCHANGED <<strategy_vars, locator_vars, hv_vars, iv_vars,
                   volatility_vars, chain_vars, journal_vars>>

\* the request of one batch resolves, with an answer or an exception
BatchResolve(k, res) ==
    /\ legacy_pc = "gathering"
    /\ tasks[k].task = Pending
    /\ tasks' = [tasks EXCEPT ![k].task = Resolved(res)]
    /\ UNCHANGED <<strategy_vars, locator_vars, hv_vars, iv_vars,
                   volatility_vars, chain_vars, journal_vars, legacy_pc,
                   contracts_data, snapshot_map, legacy_result>>

\* gather(..., return_exceptions = True) returns when every task is over;
\* then the merge, and the chain or the HTTPException (lines 414 to 484)
LegacyFinish ==
    /\ legacy_pc = "gathering"
    /\ \A k \in DOMAIN tasks : tasks[k].task # Pending
    /\ LET responses == [k \in DOMAIN tasks |-> tasks[k].task.res]
           index == snapshot_map_of(merged_items(responses))
       IN  /\ snapshot_map' = Some(index)
           /\ legacy_result' = legacy_chain_result(contracts_data, index)
    /\ legacy_pc' = "done"
    /\ UNCHANGED <<strategy_vars, locator_vars, hv_vars, iv_vars,
                   volatility_vars, chain_vars, journal_vars, contracts_data,
                   tasks>>

NextLegacy ==
    \/ \E listed \in 0..MaxOptionTickers : LegacyStart(listed)
    \/ /\ legacy_pc = "gathering"
       /\ \E k \in DOMAIN tasks :
              /\ tasks[k].task = Pending
              /\ \E res \in BatchResponses(tasks[k].batch) : BatchResolve(k, res)
    \/ LegacyFinish

SpecLegacy == InitLegacy /\ [][NextLegacy]_vars

\* ------------------------------------------------------------------------
\* Accounts and the trade journal
\* (routers/auth.py, routers/journal.py, crud.py)
\*
\* A row's id is its position in its table: rows are only ever added.  An
\* access token is the username it was issued for, its "sub".
\* ------------------------------------------------------------------------
MaxEntries == 2

Usernames == {"journaluser", "userB"}

Passwords == {"journalpassword", "passwordB"}

\* auth_service.get_password_hash; verify_password(plain, hashed) is then
\* hashed = get_password_hash(plain)
get_password_hash(password) == <<"hashed", password>>

\* crud.get_user_by_username: the id of the first user of that name
get_user_by_username(db_users, username) ==
    LET found == {i \in DOMAIN db_users : db_users[i].username = username}
    IN  IF found = {} THEN Absent
        ELSE Some(CHOOSE i \in found : \A j \in found : i <= j)

\* auth_service.get_current_active_user: the id of the user the token was
\* issued for; Absent when the request has no valid token or the user is
\* unknown or inactive, which the dependency answers itself with 401 or 400
get_current_active_user(db_users, issued, token) ==
    IF token = Absent \/ token[1] \notin issued THEN Absent
    ELSE LET user == get_user_by_username(db_users, token[1])
         IN  IF user # Absent /\ db_users[user[1]].is_active THEN user ELSE Absent

\* Mutant of get_journal_entries: the filter on the owner left out
get_journal_entries_of_all(db_entries, user_id, skip, limit) ==
    LET rows == db_entries
    IN  SubSeq(rows, skip + 1, Min(skip + limit, Len(rows)))

\* crud.get_journal_entries: where(owner_id == user_id).offset(skip).limit(limit)
get_journal_entries(db_entries, user_id, skip, limit) ==
    LET rows == SelectSeq(db_entries, LAMBDA row : row.owner_id = user_id)
    IN  SubSeq(rows, skip + 1, Min(skip + limit, Len(rows)))

\* an endpoint's answer, kept with the request it answers
JournalAnswer(op, token, entry_id, answer) ==
    [op |-> op, token |-> token, entry_id |-> entry_id,
     status_code |-> answer.status_code, body |-> answer.body]

\* ---- the state machine ----
InitJournal ==
    /\ AtRest(Parts)
    /\ api_key = TRUE

\* POST /api/v1/auth/register
register_user(username, password) ==
    /\ IF get_user_by_username(users, username) # Absent
       THEN /\ journal_response' =
                   JournalAnswer("register", Absent, 0, HTTPException(400, "registered"))
            /\ UNCHANGED users
       ELSE /\ users' = Append(users, [username |-> username,
                                       hashed_password |-> get_password_hash(password),
                                       is_active |-> TRUE])
            /\ journal_response' = JournalAnswer("register", Absent, 0,
                   [status_code |-> 201, body |-> Some(Len(users) + 1)])
    /\ UNCHANGED <<strategy_vars, locator_vars, hv_vars, iv_vars,
                   volatility_vars, chain_vars, legacy_vars, journal_entries,
                   tokens>>

\* POST /api/v1/auth/login
login_for_access_token(username, password) ==
    /\ LET user == get_user_by_username(users, username)
       IN  IF \/ user = Absent
              \/ users[user[1]].hashed_password # get_password_hash(password)
           THEN /\ journal_response' =
                       JournalAnswer("login", Absent, 0, HTTPException(401, "incorrect"))
                /\ UNCHANGED tokens
           ELSE /\ tokens' = tokens \cup {users[user[1]].username}
                /\ journal_response' = JournalAnswer("login", Absent, 0,
                                                     Ok(users[user[1]].username))
    /\ UNCHANGED <<strategy_vars, locator_vars, hv_vars, iv_vars,
                   volatility_vars, chain_vars, legacy_vars, users,
                   journal_entries>>

\* POST /api/v1/journal/
create_new_journal_entry(token, underlying) ==
    /\ Len(journal_entries) < MaxEntries
    /\ LET current_user == get_current_active_user(users, tokens, token)
       IN  IF current_user = Absent
           THEN /\ journal_response' =
                       JournalAnswer("create", token, 0, HTTPException(401, "credentials"))
                /\ UNCHANGED journal_entries
           ELSE LET db_entry == [id |-> Len(journal_entries) + 1,
                                 underlying |-> underlying,
                                 owner_id |-> current_user[1]]
                IN  /\ journal_entries' = Append(journal_entries, db_entry)
                    /\ journal_response' =
                           JournalAnswer("create", token, db_entry.id,
                                         [status_code |-> 201, body |-> Some(db_entry)])
    /\ UNCHANGED <<strategy_vars, locator_vars, hv_vars, iv_vars,
                   volatility_vars, chain_vars, legacy_vars, users, tokens>>

\* GET /api/v1/journal/
read_journal_entries(token, skip, limit) ==
    /\ LET current_user == get_current_active_user(users, tokens, token)
       IN  journal_response' =
               IF current_user = Absent
               THEN JournalAnswer("list", token, 0, HTTPException(401, "credentials"))
               ELSE JournalAnswer("list", token, 0,
                        Ok(get_journal_entries(journal_entries, current_user[1],
                                               skip, limit)))
    /\ UNCHANGED <<strategy_vars, locator_vars, hv_vars, iv_vars,
                   volatility_vars, chain_vars, legacy_vars, users,
                   journal_entries, tokens>>

\* GET /api/v1/journal/{entry_id}
read_journal_entry_by_id(token, entry_id) ==
    /\ LET current_user == get_current_active_user(users, tokens, token)
       IN  journal_response' =
               IF current_user = Absent
               THEN JournalAnswer("read", token, entry_id,
                                  HTTPException(401, "credentials"))
               \* crud.get_journal_entry: db.get(TradeJournalEntry, entry_id)
               ELSE IF entry_id \notin DOMAIN journal_entries
               THEN JournalAnswer("read", token, entry_id,
                                  HTTPException(404, "not_found"))
               ELSE IF journal_entries[entry_id].owner_id # current_user[1]
               THEN JournalAnswer("read", token, entry_id,
                                  HTTPException(403, "forbidden"))
               ELSE JournalAnswer("read", token, entry_id,
                                  Ok(journal_entries[entry_id]))
    /\ UNCHANGED <<strategy_vars, locator_vars, hv_vars, iv_vars,
                   volatility_vars, chain_vars, legacy_vars, users,
                   journal_entries, tokens>>

NextJournal ==
    \/ \E username \in Usernames, password \in Passwords :
           register_user(username, password)
    \/ \E username \in Usernames, password \in Passwords :
           login_for_access_token(username, password)
    \/ \E token \in {Absent} \cup {Some(u) : u \in Usernames},
          underlying \in {"TSLA", "SPY"} :
           create_new_journal_entry(token, underlying)
    \/ \E token \in {Absent} \cup {Some(u) : u \in Usernames},
          skip \in 0..1, limit \in {1, 100} :
           read_journal_entries(token, skip, limit)
    \/ \E token \in {Absent} \cup {Some(u) : u \in Usernames},
          entry_id \in 1..(MaxEntries + 1) :
           read_journal_entry_by_id(token, entry_id)

SpecJournal == InitJournal /\ [][NextJournal]_vars

\* ------------------------------------------------------------------------
\* Vocabulary of the properties
\* ------------------------------------------------------------------------
Done == pc = "done"

Failed == Done /\ "error" \in DOMAIN analysis_result

Succeeded == Done /\ "pl_chart_data" \in DOMAIN analysis_result

\* The provider answered 200 with a non-empty result list.
Answered == /\ snapshot_res # Absent
            /\ ~snapshot_res[1].transport_error
            /\ snapshot_res[1].status_code = 200
            /\ snapshot_res[1].results # Absent
            /\ snapshot_res[1].results[1] # <<>>

\* The snapshot the provider sent for a ticker (the last one, if several).
Sent(ticker) ==
    LET results == snapshot_res[1].results[1]
        at == {i \in DOMAIN results : results[i].ticker = ticker}
    IN  IF at = {} THEN Absent
        ELSE Some(results[CHOOSE i \in at : \A j \in at : j <= i])

SentLeg(i) == Sent(legs[i].option_ticker)

\* Strike, twice the mid premium and contract type of leg i of a successful analysis
StrikeOfLeg(i) == SentLeg(i)[1].details[1].strike_price

TwicePremiumOfLeg(i) == SentLeg(i)[1].last_quote[1].bid + SentLeg(i)[1].last_quote[1].ask

TypeOfLeg(i) == SentLeg(i)[1].details[1].contract_type

SingleLeg(action, type) ==
    /\ Succeeded
    /\ Len(legs) = 1
    /\ legs[1].action = action
    /\ legs[1].quantity = 1
    /\ TypeOfLeg(1) = type

Chart == analysis_result.pl_chart_data

PriceAt(i) == Chart[i].price_at_expiration

ProfitAt(i) == Chart[i].profit_loss

\* The underlying price the analysis resolved
Underlying == resolve_underlying_price(Sent(request[Len(request)])[1])[1]

Abs(x) == IF x < 0 THEN -x ELSE x

\* ------------------------------------------------------------------------
\* C1  short put: max_profit = p x 100, attained at or above the strike
\* ------------------------------------------------------------------------
\* C1: for one SELL put leg with strike K, mid premium p and quantity 1,
\* max_profit equals p x 100 and is attained at a sampled price at or above K.
\* It is stated for strikes that are not above the highest sampled price,
\* underlying_price x 1.25, so that a sampled price at or above K exists.
C1_ShortPutMaxProfit ==
    (SingleLeg("SELL", "put") /\ StrikeOfLeg(1) * 4 <= Underlying * 5) =>
        /\ 2 * analysis_result.max_profit
               = TwicePremiumOfLeg(1) * ContractSize * GridDen
        /\ \E i \in DOMAIN Chart :
               /\ ProfitAt(i) = analysis_result.max_profit
               /\ PriceAt(i) >= StrikeOfLeg(1) * GridDen

\* ------------------------------------------------------------------------
\* C2  long call: loss of the premium at the low end, linear above the
\*     strike, breakeven near K + p
\* ------------------------------------------------------------------------
\* profit_loss rises by 100 per unit of price between consecutive samples at
\* or above the strike
LinearAboveStrike ==
    \A i \in 1..(Len(Chart) - 1) :
        PriceAt(i) >= StrikeOfLeg(1) * GridDen =>
            ProfitAt(i + 1) - ProfitAt(i) = ContractSize * (PriceAt(i + 1) - PriceAt(i))

\* twice (K + p), as a numerator over GridDen
TwiceBreakevenTarget == (2 * StrikeOfLeg(1) + TwicePremiumOfLeg(1)) * GridDen

\* twice the distance between two consecutive sampled prices
TwiceStep == 2 * (PriceAt(2) - PriceAt(1))

\* twice a reported breakeven (whole cents), as a numerator over GridDen
TwiceReported(b) == 2 * b * UnitsPerCent * GridDen

\* C2 (as stated): for one BUY call leg with strike K, mid premium p and
\* quantity 1, profit_loss is -p x 100 at the lowest sampled price, rises
\* linearly with the price above K, and a breakeven point is reported within
\* one sampling step of K + p.  It is stated for a positive underlying price
\* and a positive premium, and allows the reported point the half cent of its
\* rounding to two decimals.
C2_LongCallCurve_AsStated ==
    (SingleLeg("BUY", "call") /\ Underlying > 0 /\ TwicePremiumOfLeg(1) > 0) =>
        /\ 2 * ProfitAt(1) = -TwicePremiumOfLeg(1) * ContractSize * GridDen
        /\ LinearAboveStrike
        /\ \E k \in DOMAIN analysis_result.breakeven_points :
               Abs(TwiceReported(analysis_result.breakeven_points[k])
                   - TwiceBreakevenTarget) <= TwiceStep + UnitsPerCent * GridDen

\* K + p lies strictly between two consecutive sampled prices
TargetBetweenSamples ==
    \E i \in 1..(Len(Chart) - 1) :
        /\ 2 * PriceAt(i) < TwiceBreakevenTarget
        /\ TwiceBreakevenTarget < 2 * PriceAt(i + 1)

\* C2 (amended): profit_loss rises linearly above K; it is -p x 100 at the
\* lowest sampled price provided that price is not above K; a breakeven is
\* reported exactly when p > 0 and K + p lies strictly between two consecutive
\* sampled prices, and it is then the only one and within one sampling step
\* plus half a cent (the rounding to two decimals) of K + p.
C2_LongCallCurve ==
    SingleLeg("BUY", "call") =>
        /\ Underlying * 3 <= StrikeOfLeg(1) * 4 =>
               2 * ProfitAt(1) = -TwicePremiumOfLeg(1) * ContractSize * GridDen
        /\ LinearAboveStrike
        /\ (analysis_result.breakeven_points # <<>>)
               <=> (TwicePremiumOfLeg(1) > 0 /\ TargetBetweenSamples)
        /\ Len(analysis_result.breakeven_points) <= 1
        /\ \A k \in DOMAIN analysis_result.breakeven_points :
               Abs(TwiceReported(analysis_result.breakeven_points[k])
                   - TwiceBreakevenTarget) <= TwiceStep + UnitsPerCent * GridDen

C2_Witness ==
    /\ SingleLeg("BUY", "call")
    /\ Underlying * 3 <= StrikeOfLeg(1) * 4
    /\ ProfitAt(1) < 0
    /\ Len(analysis_result.breakeven_points) = 1
    /\ TwiceReported(analysis_result.breakeven_points[1]) # TwiceBreakevenTarget
    /\ PriceAt(Len(Chart)) > StrikeOfLeg(1) * GridDen

\* ------------------------------------------------------------------------
\* C3  net_cost
\* ------------------------------------------------------------------------
\* Every leg's action is BUY or SELL, and the analysis succeeded.
BuySellAnalysis == Succeeded /\ \A i \in DOMAIN legs : legs[i].action \in {"BUY", "SELL"}

SignOfAction(action) == IF action = "BUY" THEN 1 ELSE -1

\* the sum over legs 1..n of sign x weight(i) x quantity
RECURSIVE SignedSum(_, _)
SignedSum(weight(_), n) ==
    IF n = 0 THEN 0
    ELSE SignedSum(weight, n - 1)
         + SignOfAction(legs[n].action) * weight(n) * legs[n].quantity

\* C3: net_cost is the sum over the legs of sign x ((bid + ask) / 2) x
\* quantity x 100, sign +1 for BUY and -1 for SELL; one BUY leg of quantity 1
\* with bid 10.00 and ask 10.20 gives 1010.00 (202000 half-cents).
C3_NetCost ==
    BuySellAnalysis =>
        /\ 2 * analysis_result.net_cost
               = SignedSum(TwicePremiumOfLeg, Len(legs)) * ContractSize
        /\ ( /\ Len(legs) = 1
             /\ legs[1].action = "BUY"
             /\ legs[1].quantity = 1
             /\ SentLeg(1)[1].last_quote[1] = Quote(2000, 2040) )
           => analysis_result.net_cost = 202000

C3_Witness ==
    /\ BuySellAnalysis
    /\ Len(legs) = 1
    /\ legs[1].action = "BUY"
    /\ legs[1].quantity = 1
    /\ SentLeg(1)[1].last_quote[1] = Quote(2000, 2040)
    /\ analysis_result.net_cost = 202000

\* ------------------------------------------------------------------------
\* C4  position Greeks
\* ------------------------------------------------------------------------
DeltaOfLeg(i) == SentLeg(i)[1].greeks[1].delta

GammaOfLeg(i) == SentLeg(i)[1].greeks[1].gamma

ThetaOfLeg(i) == SentLeg(i)[1].greeks[1].theta

VegaOfLeg(i) == SentLeg(i)[1].greeks[1].vega

\* one BUY and one SELL leg of the same contract and quantity
Offsetting ==
    /\ Len(legs) = 2
    /\ legs[1].option_ticker = legs[2].option_ticker
    /\ legs[1].quantity = legs[2].quantity
    /\ {legs[1].action, legs[2].action} = {"BUY", "SELL"}

\* C4: each position Greek is the sum over the legs of sign x quantity x the
\* leg's Greek, with the sign of the cost (BUY +1, SELL -1); offsetting legs
\* give four zeros.
C4_PositionGreeks ==
    BuySellAnalysis =>
        /\ analysis_result.position_delta = SignedSum(DeltaOfLeg, Len(legs))
        /\ analysis_result.position_gamma = SignedSum(GammaOfLeg, Len(legs))
        /\ analysis_result.position_theta = SignedSum(ThetaOfLeg, Len(legs))
        /\ analysis_result.position_vega = SignedSum(VegaOfLeg, Len(legs))
        /\ Offsetting =>
               /\ analysis_result.position_delta = 0
               /\ analysis_result.position_gamma = 0
               /\ analysis_result.position_theta = 0
               /\ analysis_result.position_vega = 0

C4_Witness ==
    /\ BuySellAnalysis
    /\ Offsetting
    /\ DeltaOfLeg(1) # 0
    /\ analysis_result.position_delta = 0
    /\ analysis_result.position_vega = 0

\* ------------------------------------------------------------------------
\* C5  Breakeven Locator (specification SpecLocator)
\* ------------------------------------------------------------------------
\* the pairs of consecutive points whose profit_loss values have a negative product
NegativeProducts ==
    {i \in 2..Len(curve) : curve[i - 1].profit_loss * curve[i].profit_loss < 0}

CurveProfits == [i \in DOMAIN curve |-> curve[i].profit_loss]

\* C5: a breakeven is recorded for a pair of consecutive points exactly when
\* the product of their profit_loss values is negative, between the prices of
\* the pair; [-100, -50, 0, 60] at 90, 95, 100, 105 gives none, and
\* [-100, -50, -1, 60] gives one, between 100 and 105.
C5_BreakevenLocator ==
    located # Absent =>
        /\ Len(located[1]) = Cardinality(NegativeProducts)
        /\ \A k \in DOMAIN located[1] :
               \E i \in NegativeProducts :
                   /\ Cardinality({j \in NegativeProducts : j < i}) = k - 1
                   /\ curve[i - 1].price_at_expiration <= located[1][k]
                   /\ located[1][k] <= curve[i].price_at_expiration
        /\ CurveProfits = <<-100, -50, 0, 60>> => located[1] = <<>>
        /\ CurveProfits = <<-100, -50, -1, 60>> =>
               /\ Len(located[1]) = 1
               /\ 10000 < located[1][1]
               /\ located[1][1] < 10500

C5_Witness ==
    /\ located # Absent
    /\ CurveProfits = <<-100, -50, -1, 60>>
    /\ located[1] = <<10008>>

\* ------------------------------------------------------------------------
\* C6  the 200 sampled prices
\* ------------------------------------------------------------------------
\* C6: a successful analysis has exactly 200 points, ascending by price and
\* evenly spaced, from underlying_price x 0.75 to underlying_price x 1.25.
C6_SampledPrices ==
    Succeeded =>
        /\ Len(Chart) = 200
        /\ \A i \in 1..(Len(Chart) - 1) :
               /\ PriceAt(i) <= PriceAt(i + 1)
               /\ Underlying > 0 => PriceAt(i) < PriceAt(i + 1)
               /\ PriceAt(i + 1) - PriceAt(i) = PriceAt(2) - PriceAt(1)
        /\ 4 * PriceAt(1) = 3 * Underlying * GridDen
        /\ 4 * PriceAt(Len(Chart)) = 5 * Underlying * GridDen

C6_Witness ==
    /\ Succeeded
    /\ Underlying = 24
    /\ PriceAt(1) = 18 * GridDen
    /\ PriceAt(200) = 30 * GridDen

\* ------------------------------------------------------------------------
\* C7  a leg without usable data
\* ------------------------------------------------------------------------
SentStock == Sent(request[Len(request)])

\* The leg's snapshot is absent, or lacks a quote, or lacks Greeks.
LegDataMissing(i) ==
    \/ SentLeg(i) = Absent
    \/ SentLeg(i)[1].last_quote = Absent
    \/ SentLeg(i)[1].greeks = Absent

\* The leg's snapshot has any defect at all.
LegDefect(i) ==
    \/ LegDataMissing(i)
    \/ SentLeg(i)[1].error
    \/ DOMAIN SentLeg(i)[1].greeks[1] = {}

ClientError == Failed /\ http_status >= 400 /\ http_status <= 499

Names(ticker) ==
    \E k \in DOMAIN analysis_result.error.names : analysis_result.error.names[k] = ticker

\* C7: when the snapshot of a requested leg is absent, or lacks a quote, or
\* lacks Greeks, the analysis fails with a client-class (4xx) error that
\* names the leg, and returns no analytics.  It is stated for the first
\* defective leg of a request whose underlying price was resolved, the leg
\* the analysis meets first.
C7_LegDataUnavailable ==
    ( /\ Done
      /\ Answered
      /\ SentStock # Absent
      /\ resolve_underlying_price(SentStock[1]) # Absent ) =>
        \A i \in DOMAIN legs :
            (LegDataMissing(i) /\ \A j \in 1..(i - 1) : ~LegDefect(j)) =>
                /\ ClientError
                /\ Names(legs[i].option_ticker)

\* ------------------------------------------------------------------------
\* C8  no legs
\* ------------------------------------------------------------------------
\* C8: a request without legs fails with status 400 and no request is sent
\* to the provider.
C8_EmptyLegs ==
    (Done /\ legs = <<>>) =>
        /\ Failed
        /\ http_status = 400
        /\ analysis_result.error.kind = "empty_legs"
        /\ provider_calls = 0
        /\ request = <<>>
        /\ snapshot_res = Absent

C8_Witness ==
    /\ Done
    /\ legs = <<>>
    /\ api_key
    /\ http_status = 400

\* ------------------------------------------------------------------------
\* C9  the provider answers with an error status
\* ------------------------------------------------------------------------
ProviderRefused ==
    /\ Done
    /\ snapshot_res # Absent
    /\ ~snapshot_res[1].transport_error
    /\ ~(snapshot_res[1].status_code \in 200..299)

\* C9: when the provider answers the snapshot request with a non-success
\* status, the analysis fails with that status and the provider was called
\* once only.
C9_ProviderStatus ==
    ProviderRefused =>
        /\ Failed
        /\ analysis_result.error.kind = "http_error"
        /\ http_status = snapshot_res[1].status_code
        /\ provider_calls = 1

C9_Witness ==
    /\ ProviderRefused
    /\ snapshot_res[1].status_code = 404
    /\ http_status = 404
    /\ provider_calls = 1

\* ------------------------------------------------------------------------
\* C10  the underlying price
\* ------------------------------------------------------------------------
\* The analysis sampled the band of the underlying price u.
SampledAround(u) ==
    /\ 4 * PriceAt(1) = 3 * u * GridDen
    /\ 4 * PriceAt(Len(Chart)) = 5 * u * GridDen

PriceUnavailable == Failed /\ analysis_result.error.kind = "no_price"

\* C10: the underlying price is the session close of the underlying's
\* snapshot whenever that field is present, otherwise the last trade price;
\* when neither is present the analysis fails with the price-unavailable
\* error and computes nothing.
C10_UnderlyingPrice ==
    (Done /\ Answered /\ SentStock # Absent) =>
        LET close == SentStock[1].session_close
            last == SentStock[1].last_trade_price
        IN  /\ close # Absent =>
                /\ ~PriceUnavailable
                /\ Succeeded => SampledAround(close[1])
            /\ (close = Absent /\ last # Absent) =>
                /\ ~PriceUnavailable
                /\ Succeeded => SampledAround(last[1])
            /\ (close = Absent /\ last = Absent) => PriceUnavailable

\* ------------------------------------------------------------------------
\* C11.  calculate_hv returns the empty list when there are fewer prices
\* than the window; otherwise the list has one entry per price, the first
\* window - 1 entries are null and every later entry is a value, so that
\* exactly `window` prices give exactly one value.
\* ------------------------------------------------------------------------
HVReturned == hv_list # Absent

HVList == hv_list[1]

HVValues == {i \in 1..Len(HVList) : HVList[i] # Absent}

C11_PaddedLength ==
    HVReturned =>
        IF Len(prices) < window
        THEN HVList = <<>>
        ELSE /\ Len(HVList) = Len(prices)
             /\ \A i \in 1..(window - 1) : HVList[i] = Absent
             /\ \A i \in window..Len(prices) : HVList[i] # Absent
             /\ Len(prices) = window => Cardinality(HVValues) = 1

C11_Witness ==
    /\ HVReturned
    /\ Len(prices) = window
    /\ Len(HVList) = window
    /\ HVValues = {window}

\* ------------------------------------------------------------------------
\* C12.  For a series with an observation, current_iv is the last
\* observation; iv_rank is ((current_iv - low) / (high - low)) x 100
\* rounded to two decimals, and 0 when high equals low; identical
\* observations give iv_rank 0 and iv_percentile 0; the series 0.2, 0.8, 0.5
\* gives current_iv 0.5, high 0.8, low 0.2 and iv_rank 50.0.
\* C12_IVRank_AsStated is the claim as worded, without the rounding.
\* ------------------------------------------------------------------------
IVReturned == iv_indicators # Absent

Indicators == iv_indicators[1]

\* the observations of the series that are not null
Observed == {iv_series[i][1] : i \in {j \in 1..Len(iv_series) : iv_series[j] # Absent}}

LastObserved ==
    LET last == CHOOSE i \in 1..Len(iv_series) :
                    /\ iv_series[i] # Absent
                    /\ \A j \in (i + 1)..Len(iv_series) : iv_series[j] = Absent
    IN  iv_series[last][1]

HighObserved == CHOOSE v \in Observed : \A u \in Observed : u <= v

LowObserved == CHOOSE v \in Observed : \A u \in Observed : u >= v

FlatAndExample ==
    /\ Cardinality(Observed) = 1 =>
           Indicators.iv_rank = 0 /\ Indicators.iv_percentile = 0
    /\ iv_series = <<Some(20), Some(80), Some(50)>> =>
           /\ Indicators.current_iv = 50
           /\ Indicators.iv_52_week_high = 80
           /\ Indicators.iv_52_week_low = 20
           /\ Indicators.iv_rank = 5000

C12_IVRank_AsStated ==
    (IVReturned /\ Observed # {}) =>
        /\ Indicators.current_iv = LastObserved
        /\ IF HighObserved = LowObserved
           THEN Indicators.iv_rank = 0
           ELSE Indicators.iv_rank * (HighObserved - LowObserved)
                    = (LastObserved - LowObserved) * FullScale
        /\ FlatAndExample

C12_IVRank ==
    (IVReturned /\ Observed # {}) =>
        /\ Indicators.current_iv = LastObserved
        /\ IF HighObserved = LowObserved
           THEN Indicators.iv_rank = 0
           ELSE 2 * Abs(Indicators.iv_rank * (HighObserved - LowObserved)
                            - (LastObserved - LowObserved) * FullScale)
                    <= HighObserved - LowObserved
        /\ FlatAndExample

C12_Witness ==
    /\ IVReturned
    /\ iv_series = <<Some(20), Some(80), Some(50)>>
    /\ Indicators.iv_rank = 5000

\* ------------------------------------------------------------------------
\* C13.  For every series with at least one observation the indicators are
\* returned, 0 <= iv_rank <= 100, 0 <= iv_percentile <= 100 and
\* iv_52_week_low <= current_iv <= iv_52_week_high.
\* ------------------------------------------------------------------------
C13_IndicatorRanges ==
    (IVReturned /\ Observed # {}) =>
        /\ Indicators # <<>>
        /\ 0 <= Indicators.iv_rank /\ Indicators.iv_rank <= FullScale
        /\ 0 <= Indicators.iv_percentile /\ Indicators.iv_percentile <= FullScale
        /\ Indicators.iv_52_week_low <= Indicators.current_iv
        /\ Indicators.current_iv <= Indicators.iv_52_week_high

C13_Witness ==
    /\ IVReturned
    /\ Cardinality(Observed) = 3
    /\ Indicators.iv_52_week_low < Indicators.current_iv
    /\ Indicators.current_iv < Indicators.iv_52_week_high
    /\ Indicators.iv_rank > 0
    /\ Indicators.iv_percentile > 0

\* ------------------------------------------------------------------------
\* C14.  With the flag at mock, get_option_chain answers with a chain that
\* has is_mock true, exactly 3 calls and exactly 3 puts, for every ticker and
\* expiration, and no request is sent to the provider.
\* ------------------------------------------------------------------------
ChainDone == chain_pc = "done"

ChainRequest == chain_request[1]

ChainReturned == ChainDone /\ chain_result.body # Absent

Chain == chain_result.body[1]

LiveChainReturned == ChainReturned /\ ChainRequest.is_live

C14_MockChain ==
    (ChainDone /\ ~ChainRequest.is_live) =>
        /\ chain_result.status_code = 200
        /\ chain_result.body # Absent
        /\ Chain.isMock
        /\ Len(Chain.calls) = 3
        /\ Len(Chain.puts) = 3
        /\ chain_log = <<>>
        /\ price_res = Absent
        /\ chain_res = Absent

C14_Witness ==
    /\ ChainDone
    /\ ~ChainRequest.is_live
    /\ ChainRequest.ticker = <<"s", "p", "y">>
    /\ ChainReturned
    /\ Chain.isMock
    /\ Len(Chain.calls) = 3

\* ------------------------------------------------------------------------
\* C15.  In every chain returned by the live branch the calls and the puts
\* are each non-decreasing by strike_price, whatever the provider's order.
\* ------------------------------------------------------------------------
NonDecreasing(contracts) ==
    \A i \in 1..(Len(contracts) - 1) :
        contracts[i].strike_price <= contracts[i + 1].strike_price

ProviderContracts == chain_res[1].results[1]

C15_SortedByStrike ==
    LiveChainReturned => NonDecreasing(Chain.calls) /\ NonDecreasing(Chain.puts)

C15_Witness ==
    /\ LiveChainReturned
    /\ chain_res[1].results # Absent
    /\ Len(ProviderContracts) = 3
    /\ ProviderContracts[1] = GoodContract("call", 16000, Some(FALSE))
    /\ ProviderContracts[2] = GoodContract("call", 15000, Some(TRUE))
    /\ ProviderContracts[3] = GoodContract("call", 14000, Some(TRUE))
    /\ Len(Chain.calls) = 3
    /\ Chain.calls[1].strike_price = 14000
    /\ Chain.calls[3].strike_price = 16000

\* ------------------------------------------------------------------------
\* C16.  Every contract of a chain assembled by the live branch has
\* is_in_the_money true exactly when it is a call with strike below the
\* chain's underlying_price or a put with strike above it.
\* ------------------------------------------------------------------------
InTheMoney(contract, underlying_price) ==
    \/ contract.contract_type = "call" /\ contract.strike_price < underlying_price
    \/ contract.contract_type = "put" /\ contract.strike_price > underlying_price

ContractsOf(chain) ==
    {chain.calls[i] : i \in DOMAIN chain.calls}
        \cup {chain.puts[i] : i \in DOMAIN chain.puts}

C16_InTheMoney ==
    LiveChainReturned =>
        \A contract \in ContractsOf(Chain) :
            contract.is_itm <=> InTheMoney(contract, Chain.underlying_price)

\* ------------------------------------------------------------------------
\* C17.  In the live branch, when the provider answers the underlying-price
\* request or the chain-snapshot request with an HTTP error status, the
\* chain request fails with that status and no chain is returned.
\* ------------------------------------------------------------------------
HttpErrorStatus(res) ==
    res # Absent /\ ~res[1].transport_error /\ ~is_success(res[1].status_code)

C17_ProviderStatus ==
    (ChainDone /\ ChainRequest.is_live) =>
        /\ HttpErrorStatus(price_res) =>
               /\ chain_result.status_code = price_res[1].status_code
               /\ chain_result.body = Absent
        /\ HttpErrorStatus(chain_res) =>
               /\ chain_result.status_code = chain_res[1].status_code
               /\ chain_result.body = Absent

\* ------------------------------------------------------------------------
\* C18.  The implied-volatility fetch and the price-bar fetch are issued
\* together; HV and the IV indicators are computed only after both have
\* resolved; and when either fetch fails, in whatever order the two
\* complete and whatever the other returns, the call ends with status 503
\* and no VolatilityAnalysis.
\* ------------------------------------------------------------------------
\* the request of a task did not come back with a 2xx answer
FetchFailed(task) ==
    /\ task.state = "resolved"
    /\ task.res.transport_error \/ task.res.status_code \notin 200..299

Computed == hv_list # Absent \/ iv_indicators # Absent

C18_GatherThenCompute ==
    /\ fmp_task = NotIssued <=> polygon_task = NotIssued
    /\ Computed => fmp_task.state = "resolved" /\ polygon_task.state = "resolved"
    /\ (vol_pc = "done" /\ (FetchFailed(fmp_task) \/ FetchFailed(polygon_task))) =>
           /\ vol_result.status_code = 503
           /\ vol_result.body = Absent
           /\ ~Computed

\* the price bars arrived first and were good, the implied volatilities failed
C18_Witness ==
    /\ vol_pc = "done"
    /\ FetchFailed(fmp_task)
    /\ ~fmp_task.res.transport_error
    /\ polygon_task.state = "resolved"
    /\ ~FetchFailed(polygon_task)
    /\ vol_result.status_code = 503

\* ------------------------------------------------------------------------
\* C19.  The live/mock flag is written by the startup probe only, before
\* any request is served, and is not decided again per request: every
\* option-chain request between startup and shutdown takes the same branch,
\* the live one exactly when the probe returned true.
\* ------------------------------------------------------------------------
C19_FlagDecidedAtStartup ==
    /\ [](chain_request # Absent =>
              app_phase # "starting" /\ (ChainRequest.is_live <=> probe))
    /\ [][/\ app_state' # app_state =>
                 \/ app_phase = "starting" /\ app_phase' = "serving"
                 \/ app_phase = "serving" /\ app_phase' = "stopped"
          /\ probe' # probe => app_phase = "starting"
          /\ chain_request' # chain_request => app_phase = "serving"]_vars

C19_Witness ==
    /\ app_phase = "serving"
    /\ probe
    /\ ChainDone
    /\ ChainRequest.is_live
    /\ chain_log = <<"last_trade", "snapshot">>

\* ------------------------------------------------------------------------
\* C20.  Every value returned by calculate_hv at position i is computed from
\* exactly `window` log returns ln(p[t] / p[t - 1]) of consecutive prices,
\* the last of them ending at position i; no return that pairs the first
\* price with the last one enters a window.
\* ------------------------------------------------------------------------
\* ln(p[t] / p[t - 1]) in units of ln 2, for a position t that has a
\* predecessor
AdjacentReturn(t) == Log2(prices[t]) - Log2(prices[t - 1])

AdjacentWindow(i) == [j \in 1..window |-> AdjacentReturn(i - window + j)]

C20_AdjacentReturnsOnly ==
    HVReturned =>
        \A i \in HVValues :
            /\ i - window >= 1
            /\ HVList[i] = Some(annualized_hv_sq(AdjacentWindow(i)))

\* ------------------------------------------------------------------------
\* C21.  Every malformed strategy input, a first-leg identifier without the
\* ":" separator included, is answered with a client-class (4xx) error and
\* never with a server-class one.
\* ------------------------------------------------------------------------
\* the identifier has no ":" in it
NoSeparator(option_ticker) == \A k \in DOMAIN option_ticker : option_ticker[k] # ":"

\* no leg at all, or a first leg whose identifier is not "O:<contract>"
MalformedInput == legs = <<>> \/ NoSeparator(legs[1].option_ticker)

C21_MalformedInput == (Done /\ MalformedInput) => ClientError

\* ------------------------------------------------------------------------
\* C22.  In the live branch a contract of the provider's snapshot is left
\* out of the returned chain exactly when a piece of its essential data is
\* missing, and every other contract appears exactly once, in calls or in
\* puts.
\* ------------------------------------------------------------------------
\* data.get("results", []) of the chain-snapshot answer
ProviderList == IF chain_res[1].results = Absent THEN <<>> ELSE chain_res[1].results[1]

\* the contract of the chain was built from this snapshot
BuiltFrom(contract, snap) ==
    /\ Some(contract.symbol) = snap.details.ticker
    /\ Some(contract.strike_price) = snap.details.strike_price
    /\ Some(contract.contract_type) = snap.details.contract_type
    /\ Some(contract.bid) = snap.quote.bid
    /\ Some(contract.ask) = snap.quote.ask
    /\ contract.is_itm = (snap.in_the_money = Some(TRUE))

\* how often the snapshot came from the provider, and how often the chain
\* holds its contract
TimesSent(snap) == Cardinality({j \in DOMAIN ProviderList : ProviderList[j] = snap})

TimesListed(snap) ==
    Cardinality({k \in DOMAIN Chain.calls : BuiltFrom(Chain.calls[k], snap)})
        + Cardinality({k \in DOMAIN Chain.puts : BuiltFrom(Chain.puts[k], snap)})

\* bid, ask, strike and contract type are all there
FourPresent(snap) ==
    /\ snap.quote.bid # Absent
    /\ snap.quote.ask # Absent
    /\ snap.details.strike_price # Absent
    /\ snap.details.contract_type # Absent

\* C22 as stated: left out exactly when bid, ask, strike or contract type is
\* missing
C22_SkipRule_AsStated ==
    LiveChainReturned =>
        \A i \in DOMAIN ProviderList :
            TimesListed(ProviderList[i])
                = IF FourPresent(ProviderList[i]) THEN TimesSent(ProviderList[i]) ELSE 0

\* the four, the contract's own identifier, and a strike that is not zero
EssentialPresent(snap) ==
    /\ FourPresent(snap)
    /\ snap.details.ticker # Absent
    /\ snap.details.strike_price # Some(0)

\* C22 amended: a contract is left out exactly when its identifier, strike
\* or contract type is missing, its strike is zero, or its bid or ask is
\* missing; every other contract is listed as often as the provider sent it.
C22_SkipRule ==
    LiveChainReturned =>
        \A i \in DOMAIN ProviderList :
            TimesListed(ProviderList[i])
                = IF EssentialPresent(ProviderList[i]) THEN TimesSent(ProviderList[i]) ELSE 0

\* a contract without identifier and one with strike zero are left out, the
\* call between them is listed
C22_Witness ==
    /\ LiveChainReturned
    /\ Len(ProviderList) = 3
    /\ FourPresent(ProviderList[1]) /\ ProviderList[1].details.ticker = Absent
    /\ ProviderList[2] = GoodContract("call", 15000, Some(TRUE))
    /\ ProviderList[3] = GoodContract("call", 0, Some(FALSE))
    /\ Len(Chain.calls) = 1
    /\ Len(Chain.puts) = 0

\* ------------------------------------------------------------------------
\* C23.  For an identifier list of any length n the batched snapshot lookup
\* issues exactly ceil(n / 25) requests, each for a consecutive slice of at
\* most 25 identifiers, every identifier of the list being requested in
\* exactly one batch; and the merged index holds exactly the items without
\* error of the batches that were answered with success.
\* ------------------------------------------------------------------------
LookupIssued == legacy_pc \in {"gathering", "done"} /\ contracts_data # <<>>

LegacyDone == legacy_pc = "done"

\* the identifier list given to the lookup
Identifiers == all_tickers_to_query_of(contracts_data)

\* where an identifier is requested: the batch and the place in it
RequestedAt(ticker) ==
    {<<k, j>> \in (DOMAIN tasks) \X (1..BATCH_SIZE) :
        j <= Len(tasks[k].batch) /\ tasks[k].batch[j] = ticker}

\* the batch is a run of neighbours of the list
ConsecutiveSlice(batch) ==
    \E start \in 1..Len(Identifiers) :
        /\ start + Len(batch) - 1 <= Len(Identifiers)
        /\ batch = SubSeq(Identifiers, start, start + Len(batch) - 1)

\* the batch was answered with status 200
BatchSucceeded(k) ==
    /\ tasks[k].task.state = "resolved"
    /\ ~tasks[k].task.res.transport_error
    /\ tasks[k].task.res.status_code = 200

\* the items without error of the batches that succeeded
SucceededItems ==
    UNION {IF tasks[k].task.res.results = Absent THEN {}
           ELSE {tasks[k].task.res.results[1][j] :
                    j \in {i \in DOMAIN tasks[k].task.res.results[1] :
                              ~tasks[k].task.res.results[1][i].error}} :
           k \in {b \in DOMAIN tasks : BatchSucceeded(b)}}

C23_BatchedLookup ==
    LookupIssued =>
        /\ Len(tasks) * BATCH_SIZE >= Len(Identifiers)
        /\ (Len(tasks) - 1) * BATCH_SIZE < Len(Identifiers)
        /\ \A k \in DOMAIN tasks :
               /\ Len(tasks[k].batch) \in 1..BATCH_SIZE
               /\ ConsecutiveSlice(tasks[k].batch)
        /\ \A i \in DOMAIN Identifiers :
               Cardinality(RequestedAt(Identifiers[i])) = 1
        /\ (LegacyDone /\ snapshot_map # Absent) =>
               /\ {snapshot_map[1][t] : t \in DOMAIN snapshot_map[1]} = SucceededItems
               /\ \A t \in DOMAIN snapshot_map[1] : snapshot_map[1][t].ticker = t

\* 52 identifiers in batches of 25, 25 and 2; the second batch failed
C23_Witness ==
    /\ LegacyDone
    /\ Len(Identifiers) = 2 * BATCH_SIZE + 2
    /\ Len(tasks) = 3
    /\ Len(tasks[3].batch) = 2
    /\ BatchSucceeded(1)
    /\ ~BatchSucceeded(2)
    /\ BatchSucceeded(3)
    /\ Cardinality(DOMAIN snapshot_map[1]) = BATCH_SIZE + 2

\* ------------------------------------------------------------------------
\* C24.  In the chain-assembly path the failure of a single snapshot batch
\* (an exception or a status other than 200) only takes that batch's
\* identifiers out of the index: the chain is still built, and it holds the
\* contracts resolved by the other batches.  It is stated for a lookup of
\* two batches or more in which every other batch was answered in full.
\* ------------------------------------------------------------------------
BatchFailed(k) == tasks[k].task.state = "resolved" /\ ~BatchSucceeded(k)

\* the batch was answered with a complete snapshot of each of its identifiers
AnsweredInFull(k) ==
    /\ BatchSucceeded(k)
    /\ tasks[k].task.res.results # Absent
    /\ Len(tasks[k].task.res.results[1]) = Len(tasks[k].batch)
    /\ \A j \in DOMAIN tasks[k].task.res.results[1] :
           LET item == tasks[k].task.res.results[1][j]
           IN  /\ item.ticker = tasks[k].batch[j]
               /\ ~item.error
               /\ IF item.ticker = 0
                  THEN item.session_close # Absent
                  ELSE item.greeks # Absent

OneBatchFailed(failed) ==
    /\ LegacyDone
    /\ Len(tasks) >= 2
    /\ failed \in DOMAIN tasks
    /\ BatchFailed(failed)
    /\ \A k \in DOMAIN tasks \ {failed} : AnsweredInFull(k)

\* the listed contracts that a batch other than `failed` asked for
ResolvedElsewhere(failed) ==
    {contracts_data[i].ticker : i \in DOMAIN contracts_data} \
        {tasks[failed].batch[j] : j \in DOMAIN tasks[failed].batch}

C24_BatchFailureAbsorbed ==
    \A failed \in DOMAIN tasks :
        OneBatchFailed(failed) =>
            /\ legacy_result.status_code = 200
            /\ legacy_result.body # Absent
            /\ \A ticker \in ResolvedElsewhere(failed) :
                   \E contract \in ContractsOf(legacy_result.body[1]) :
                       contract.strike_price = ticker

\* ------------------------------------------------------------------------
\* C25.  The chain returned by the mock branch does not depend on the
\* ticker and the expiration of the request.
\* ------------------------------------------------------------------------
MockChainReturned == ChainReturned /\ ~ChainRequest.is_live

\* C25 as stated: the chains of any two mock requests are equal in every
\* field of every contract.  Stated on a request and the one after it.
C25_MockChainFixed_AsStated ==
    [][(MockChainReturned /\ MockChainReturned') => Chain' = Chain]_vars

\* the contracts with their symbol taken off
WithoutSymbol(contracts) ==
    [i \in DOMAIN contracts |->
        [field \in DOMAIN contracts[i] \ {"symbol"} |-> contracts[i][field]]]

\* the two tickers differ in the case of their letters at most
SameLetters(a, b) ==
    /\ Len(a) = Len(b)
    /\ \A i \in DOMAIN a :
           \/ a[i] = b[i]
           \/ {a[i], b[i]} \in {{"s", "S"}, {"p", "P"}, {"y", "Y"}}

\* C25 amended: the chains of any two mock requests are equal in every field
\* other than the symbol of the contracts, and equal in the symbols too when
\* the requests have the same expiration and the same ticker up to case.
C25_MockChainFixed ==
    [][(MockChainReturned /\ MockChainReturned') =>
          /\ Chain'.isMock = Chain.isMock
          /\ Chain'.underlying_price = Chain.underlying_price
          /\ WithoutSymbol(Chain'.calls) = WithoutSymbol(Chain.calls)
          /\ WithoutSymbol(Chain'.puts) = WithoutSymbol(Chain.puts)
          /\ ( /\ SameLetters(ChainRequest'.ticker, ChainRequest.ticker)
               /\ ChainRequest'.expiration_date = ChainRequest.expiration_date )
                 => Chain' = Chain]_vars

\* the mock chain of a request for "spy" expiring 2025-01-17
C25_Witness ==
    /\ MockChainReturned
    /\ ChainRequest.ticker = <<"s", "p", "y">>
    /\ ChainRequest.expiration_date[4] = "5"
    /\ Chain.calls[1].symbol
           = <<"O", ":", "S", "P", "Y", "2", "5", "0", "1", "1", "7", "C00210000">>
    /\ Chain.calls[1].strike_price = 21000

\* ------------------------------------------------------------------------
\* C26.  Analytics are computed only for legs that satisfy the StrategyLeg
\* data model: when a leg's action is neither BUY nor SELL, or its quantity
\* is not a positive integer, the request is rejected and nothing is
\* aggregated into net_cost, Greeks or payoff curve.
\* ------------------------------------------------------------------------
\* the action, whatever its case, is not BUY or SELL, or the quantity is
\* below 1
InvalidLeg(leg) ==
    \/ leg.action \notin {"BUY", "SELL", "buy", "sell"}
    \/ leg.quantity < 1

C26_ValidLegsOnly ==
    (Done /\ \E i \in DOMAIN legs : InvalidLeg(legs[i])) =>
        /\ Failed
        /\ ~Succeeded

\* ------------------------------------------------------------------------
\* C27.  After any sequence of registrations, logins and journal creations
\* a user reads a journal entry by id only if they own it: the request for
\* an existing entry of another user is refused with 403, the request for an
\* id that does not exist gives 404, and the journal list of a user holds
\* only entries whose owner_id is that user.
\* ------------------------------------------------------------------------
\* the last request was made to `op` with a token that was issued at a login
AuthenticatedRequest(op) ==
    /\ journal_response # NoResult
    /\ journal_response.op = op
    /\ journal_response.token # Absent
    /\ journal_response.token[1] \in tokens

\* the id of the user the token was issued to
Requester == CHOOSE i \in DOMAIN users : users[i].username = journal_response.token[1]

EntryExists == journal_response.entry_id \in DOMAIN journal_entries

RequestedEntry == journal_entries[journal_response.entry_id]

C27_JournalOwnership ==
    /\ AuthenticatedRequest("read") =>
           /\ journal_response.status_code = 200 =>
                  /\ EntryExists
                  /\ RequestedEntry.owner_id = Requester
                  /\ journal_response.body = Some(RequestedEntry)
           /\ (EntryExists /\ RequestedEntry.owner_id # Requester) =>
                  /\ journal_response.status_code = 403
                  /\ journal_response.body = Absent
           /\ ~EntryExists =>
                  /\ journal_response.status_code = 404
                  /\ journal_response.body = Absent
    /\ AuthenticatedRequest("list") =>
           /\ journal_response.status_code = 200
           /\ \A i \in DOMAIN journal_response.body[1] :
                  journal_response.body[1][i].owner_id = Requester

\* the second user to register asks for the entry of the first: 403
C27_Witness ==
    /\ AuthenticatedRequest("read")
    /\ Len(users) = 2
    /\ Requester = 2
    /\ EntryExists
    /\ RequestedEntry.owner_id = 1
    /\ journal_response.status_code = 403

\* ------------------------------------------------------------------------
\* C28.  Whenever both historical fetches succeed, get_volatility_analysis
\* returns a VolatilityAnalysis for every number n >= 0 of price bars:
\* chart_data has exactly n points in the provider's order, and each point
\* for which no full window exists, all of them when n < window, has a null
\* historical volatility; the call does not fail.  It is stated for
\* implied-volatility items that have both their keys.
\* ------------------------------------------------------------------------
\* data.get("results", []) of the price-bar answer, [] of the other one
PriceBars ==
    IF polygon_task.res.results = Absent THEN <<>> ELSE polygon_task.res.results[1]

IVItems ==
    IF fmp_task.res.results = Absent THEN <<>> ELSE fmp_task.res.results[1]

BothFetchesSucceeded ==
    /\ vol_pc = "done"
    /\ fmp_task.state = "resolved" /\ ~FetchFailed(fmp_task)
    /\ polygon_task.state = "resolved" /\ ~FetchFailed(polygon_task)
    /\ \A i \in DOMAIN IVItems : IVItems[i].complete

C28_ChartForEveryLength ==
    BothFetchesSucceeded =>
        /\ vol_result.status_code = 200
        /\ vol_result.body # Absent
        /\ Len(vol_result.body[1].chart_data) = Len(PriceBars)
        /\ \A i \in DOMAIN PriceBars :
               /\ vol_result.body[1].chart_data[i].date * HoursPerDay = PriceBars[i].t
               /\ i < DefaultWindow => vol_result.body[1].chart_data[i].hv = Absent

\* ------------------------------------------------------------------------
\* C29.  For one BUY leg and one SELL leg of the same contract and the same
\* quantity, profit_loss is 0 at every one of the sampled prices, so
\* max_profit = max_loss = 0, net_cost = 0 and no breakeven point is
\* reported.
\* ------------------------------------------------------------------------
C29_OffsettingLegs ==
    (Succeeded /\ Offsetting) =>
        /\ Len(Chart) = NumPoints
        /\ \A i \in DOMAIN Chart : ProfitAt(i) = 0
        /\ analysis_result.max_profit = 0
        /\ analysis_result.max_loss = 0
        /\ analysis_result.net_cost = 0
        /\ analysis_result.breakeven_points = <<>>

\* ------------------------------------------------------------------------
\* C30.  In every chain returned by the live branch, each contract of the
\* calls list has contract_type "call" and each contract of the puts list
\* has contract_type "put", whatever contract_type the provider returns.
\* ------------------------------------------------------------------------
C30_ListsByType ==
    LiveChainReturned =>
        /\ \A i \in DOMAIN Chain.calls : Chain.calls[i].contract_type = "call"
        /\ \A i \in DOMAIN Chain.puts : Chain.puts[i].contract_type = "put"

====
